---- MODULE Spec2Model ----
(***************************************************************************)
(* A model of the Listing state controller (class Listing): its request    *)
(* lifecycle flags, fetch (get), pagination, delete and filter lifecycle   *)
(* operations, as asynchronous operations interleaving on one event loop.  *)
(* Every await of the source is a suspension point; the code between two   *)
(* awaits runs as one atomic step.                                         *)
(***************************************************************************)
EXTENDS Integers, Sequences, FiniteSets, TLC

VARIABLES
    this,      \* the Listing instance: its public and private fields
    tasks,     \* the pending asynchronous operations, oldest call first
    route,     \* routerInstance.currentRoute.value.query (owned by the router)
    last       \* history: what the latest step did

vars == <<this, tasks, route, last>>

(***************************************************************************)
(* Bounds of the model.                                                    *)
(***************************************************************************)
MaxTasks == 2      \* operations pending at the same time
MaxPage == 2       \* page numbers offered to goToPage and served by the API
MaxItems == 3      \* items held in data when a removal is checked

(***************************************************************************)
(* JavaScript values.  A string is a tuple of one-character strings, so    *)
(* that trim, parseInt and String are computed character by character.     *)
(***************************************************************************)
Null == [t |-> "null"]
Undefined == [t |-> "undef"]
Str(cs) == [t |-> "str", s |-> cs]
Num(n) == [t |-> "num", n |-> n]

IsNullish(v) == v.t \in {"null", "undef"}

Digits == <<"0", "1", "2", "3", "4", "5", "6", "7", "8", "9">>
IsDigit(c) == \E i \in 1..10 : Digits[i] = c
DigitValue(c) == (CHOOSE i \in 1..10 : Digits[i] = c) - 1
IsSpace(c) == c = " "

RECURSIVE NatChars(_)
NatChars(n) == IF n < 10 THEN <<Digits[n + 1]>>
               ELSE NatChars(n \div 10) \o <<Digits[(n % 10) + 1]>>

\* String(value) for the values the controller stringifies; an array
\* ([t |-> "arr", items |-> <<...>>]) is its elements joined by commas
RECURSIVE String(_)
RECURSIVE StringOfArray(_)
StringOfArray(items) ==
    IF items = <<>> THEN <<>>
    ELSE (IF IsNullish(Head(items)) THEN <<>> ELSE String(Head(items)))
         \o (IF Len(items) > 1 THEN <<",">> \o StringOfArray(Tail(items)) ELSE <<>>)

String(v) == CASE v.t = "str" -> v.s
               [] v.t = "num" -> IF v.n < 0 THEN <<"-">> \o NatChars(0 - v.n)
                                 ELSE NatChars(v.n)
               [] v.t = "null" -> <<"n", "u", "l", "l">>
               [] v.t = "undef" -> <<"u", "n", "d", "e", "f", "i", "n", "e", "d">>
               [] v.t = "function" -> <<"function Object() { [native code] }">>
               [] OTHER -> StringOfArray(v.items)

RECURSIVE DropSpaces(_)
DropSpaces(cs) == IF cs # <<>> /\ IsSpace(Head(cs)) THEN DropSpaces(Tail(cs)) ELSE cs

RECURSIVE DropTrailingSpaces(_)
DropTrailingSpaces(cs) ==
    IF cs # <<>> /\ IsSpace(cs[Len(cs)])
    THEN DropTrailingSpaces(SubSeq(cs, 1, Len(cs) - 1))
    ELSE cs

\* String.prototype.trim
Trim(cs) == DropTrailingSpaces(DropSpaces(cs))

RECURSIVE DigitPrefix(_)
DigitPrefix(cs) == IF cs # <<>> /\ IsDigit(Head(cs))
                   THEN <<Head(cs)>> \o DigitPrefix(Tail(cs))
                   ELSE <<>>

RECURSIVE DigitsValue(_, _)
DigitsValue(cs, acc) == IF cs = <<>> THEN acc
                        ELSE DigitsValue(Tail(cs), acc * 10 + DigitValue(Head(cs)))

\* parseInt(chars, 10): [nan |-> TRUE] or [nan |-> FALSE, n |-> value]
ParseInt(chars) ==
    LET cs == DropSpaces(chars)
        neg == cs # <<>> /\ Head(cs) = "-"
        body == IF cs # <<>> /\ Head(cs) \in {"-", "+"} THEN Tail(cs) ELSE cs
        ds == DigitPrefix(body)
    IN IF ds = <<>> THEN [nan |-> TRUE]
       ELSE [nan |-> FALSE,
             n |-> IF neg THEN 0 - DigitsValue(ds, 0) ELSE DigitsValue(ds, 0)]

\* JavaScript truthiness of a value
Truthy(v) == CASE v.t = "str" -> v.s # <<>>
               [] v.t = "num" -> v.n # 0
               [] v.t \in {"null", "undef"} -> FALSE
               [] OTHER -> TRUE

\* A mapping with no keys ({} in the source)
EmptyMap == [k \in {} |-> Null]

\* { ...a, ...b }
Spread(a, b) ==
    [k \in DOMAIN a \cup DOMAIN b |-> IF k \in DOMAIN b THEN b[k] ELSE a[k]]

\* The property names every object inherits from Object.prototype
\* (constructor, toString, hasOwnProperty, ...), of which the model keeps one
Inherited == {"constructor"}

\* key in obj: TRUE of the keys the object holds and of the inherited names
In(key, obj) == key \in DOMAIN obj \/ key \in Inherited

\* obj[key] for a key with key in obj: the value the object holds, else the
\* inherited one (Object.prototype.constructor, a function)
Lookup(obj, key) == IF key \in DOMAIN obj THEN obj[key] ELSE [t |-> "function"]

(***************************************************************************)
(* The Listing instance.                                                   *)
(***************************************************************************)
DefaultPerPage == 15
FallbackPerPage == 15

\* new Listing(): the field initialisers of the class
NewListing ==
    [data |-> <<>>,
     isLoading |-> FALSE,
     isUpdating |-> FALSE,
     isFiltering |-> FALSE,
     isResetting |-> FALSE,
     removingFilterKey |-> Null,
     error |-> Null,
     hasLoadedOnce |-> FALSE,
     currentPage |-> 1,
     perPage |-> DefaultPerPage,
     total |-> 0,
     filterValues |-> EmptyMap,
     activeFilters |-> <<>>,
     apiPath |-> Null,
     routerInstance |-> FALSE,          \* TRUE: a router was injected
     filterAttributes |-> EmptyMap,
     filterDefaults |-> EmptyMap,
     filterVisibility |-> EmptyMap,
     panelOpen |-> FALSE,
     buildQueryParameters |-> Null,
     errorHandler |-> Null,
     axiosInstance |-> FALSE,           \* TRUE: a transport was injected
     windowAxios |-> FALSE,             \* TRUE: window.axios exists
     bindings |-> {},                   \* keys that have a computed binding
     filters |-> EmptyMap]

\* Configuration methods (each returns this)
axios(s) == [s EXCEPT !.axiosInstance = TRUE]
path(s, p) == [s EXCEPT !.apiPath = Str(p)]
router(s) == [s EXCEPT !.routerInstance = TRUE]
onLoadError(s, handler) == [s EXCEPT !.errorHandler = handler]
queryParameters(s, builder) == [s EXCEPT !.buildQueryParameters = builder]

\* An external cell ({ value: ... }) handed to filterRefs
Ref(v) == [t |-> "ref", value |-> v]
\* The computed binding parameters() creates for a key
Binding(k) == [t |-> "binding", key |-> k]

filterRefs(s, fs) ==
    [s EXCEPT !.filterAttributes = fs,
              !.filterDefaults = [k \in DOMAIN fs |-> Null],
              !.filterVisibility = [k \in DOMAIN fs |-> TRUE]]

parameters(s, initials) ==
    [s EXCEPT !.filters = initials,
              !.filterDefaults = [k \in DOMAIN initials |-> initials[k]],
              !.filterVisibility = [k \in DOMAIN initials |-> TRUE],
              !.bindings = DOMAIN initials,
              !.filterAttributes = [k \in DOMAIN initials |-> Binding(k)]]

defaults(s, ds) ==
    [s EXCEPT !.filterDefaults =
        Spread(s.filterDefaults,
               [k \in {d \in DOMAIN ds : In(d, s.filterAttributes)} |-> ds[k]])]

\* isFilterVisible(key): hasOwnProperty, then the tracked value
isFilterVisible(s, key) ==
    IF key \in DOMAIN s.filterVisibility THEN s.filterVisibility[key] ELSE TRUE

showFilter(s, key) ==
    IF In(key, s.filterAttributes)
    THEN [s EXCEPT !.filterVisibility = Spread(@, [k \in {key} |-> TRUE])]
    ELSE s

hideFilter(s, key) ==
    IF In(key, s.filterAttributes)
    THEN [s EXCEPT !.filterVisibility = Spread(@, [k \in {key} |-> FALSE])]
    ELSE s

toggleFilter(s, key) ==
    IF In(key, s.filterAttributes)
    THEN [s EXCEPT !.filterVisibility = Spread(@, [k \in {key} |-> ~isFilterVisible(s, key)])]
    ELSE s

\* getAxios(): TRUE when it returns a transport, FALSE when it throws
getAxios(s) == s.axiosInstance \/ s.windowAxios

loading_NoElse(s) ==
    [s EXCEPT !.isLoading = TRUE, !.isUpdating = s.hasLoadedOnce]

loading_Swapped(s) ==
    IF s.hasLoadedOnce
    THEN [s EXCEPT !.isLoading = TRUE, !.isUpdating = FALSE]
    ELSE [s EXCEPT !.isUpdating = TRUE, !.isLoading = FALSE]

loading(s) ==
    IF s.hasLoadedOnce
    THEN [s EXCEPT !.isUpdating = TRUE, !.isLoading = FALSE]
    ELSE [s EXCEPT !.isLoading = TRUE, !.isUpdating = FALSE]

loaded_KeepsUpdating(s) == [s EXCEPT !.isLoading = FALSE]

loaded(s) == [s EXCEPT !.isLoading = FALSE, !.isUpdating = FALSE]

closePanel(s) == [s EXCEPT !.panelOpen = FALSE]
openPanel(s) == [s EXCEPT !.panelOpen = TRUE]

reset_ForgetsLoadedOnce(s) ==
    [loaded(s) EXCEPT !.data = <<>>, !.error = Null, !.currentPage = 1,
                      !.perPage = DefaultPerPage, !.total = 0,
                      !.filterValues = EmptyMap, !.activeFilters = <<>>,
                      !.hasLoadedOnce = FALSE]

reset(s) ==
    [loaded(s) EXCEPT !.data = <<>>, !.error = Null, !.currentPage = 1,
                      !.perPage = DefaultPerPage, !.total = 0,
                      !.filterValues = EmptyMap, !.activeFilters = <<>>]

(***************************************************************************)
(* Filter parameters.                                                      *)
(***************************************************************************)
\* The value a filterAttributes entry stands for: ref.value of a ref-like
\* object (an external cell or a computed binding), else the entry itself
AttributeValue(s, entry) ==
    CASE entry.t = "ref" -> entry.value
      [] entry.t = "binding" ->
            IF entry.key \in DOMAIN s.filters /\ ~IsNullish(s.filters[entry.key])
            THEN Str(String(s.filters[entry.key])) ELSE Str(<<>>)
      [] OTHER -> entry

\* The Proxy of Listing.create(): the get trap. A property in bindings is
\* read from bindings (the computed binding, which the reactive wrapper
\* unwraps to its value); every other property is read from the instance
ProxyGet(s, prop) ==
    IF prop \in s.bindings \cup Inherited
    THEN IF prop \in s.bindings THEN AttributeValue(s, Binding(prop))
         ELSE [t |-> "function"]
    ELSE IF prop \in DOMAIN s THEN s[prop] ELSE Undefined

\* The set trap: a property in bindings is written to the canonical map as
\* String(value); every other property is set on the instance
ProxySet(s, prop, value) ==
    IF prop \in s.bindings \cup Inherited
    THEN [s EXCEPT !.filters = Spread(@, [k \in {prop} |-> Str(String(value))])]
    ELSE Spread(s, [k \in {prop} |-> value])

UsesFilters_UnlessAttributes(s) == DOMAIN s.filterAttributes = {}

\* The store buildFilterParameters and query sync read: the canonical map
\* when it has keys, else the filterAttributes
UsesFilters(s) == DOMAIN s.filters # {}

ActualValue(s, key) ==
    IF UsesFilters(s) THEN s.filters[key]
    ELSE AttributeValue(s, s.filterAttributes[key])

SourceKeys(s) == IF UsesFilters(s) THEN DOMAIN s.filters ELSE DOMAIN s.filterAttributes

All == <<"a", "l", "l">>

KeepsKey_NoTrimCheck(s, key) ==
    LET v == ActualValue(s, key)
    IN /\ ~IsNullish(v)
       /\ v # Str(<<>>)
       /\ v # Str(All)

\* TRUE when the loop of buildFilterParameters keeps the key
KeepsKey(s, key) ==
    LET v == ActualValue(s, key)
    IN /\ ~IsNullish(v)
       /\ v # Str(<<>>)
       /\ v # Str(All)
       /\ v.t = "str" => Trim(v.s) # <<>>

buildFilterParameters(s) ==
    [key \in {k \in SourceKeys(s) : KeepsKey(s, k)} |->
        LET v == ActualValue(s, key)
        IN IF v.t = "str" THEN Str(Trim(v.s)) ELSE v]

(***************************************************************************)
(* get(): the code before the transport call.                              *)
(***************************************************************************)
Arr(items) == [t |-> "arr", items |-> items]
Config(c) == [t |-> "config", c |-> c]

Verified == <<"v", "e", "r", "i", "f", "i", "e", "d">>
Unverified == <<"u", "n">> \o Verified

ResolveArguments_ConfiguredFirst(s, pathOrConfig, config) ==
    IF pathOrConfig.t = "str"
    THEN [apiPath |-> IF s.apiPath # Null THEN s.apiPath ELSE pathOrConfig,
          actualConfig |-> config]
    ELSE IF pathOrConfig.t = "config"
         THEN [apiPath |-> s.apiPath, actualConfig |-> pathOrConfig]
         ELSE [apiPath |-> s.apiPath, actualConfig |-> Undefined]

\* The acting endpoint and the config object get() works with
ResolveArguments(s, pathOrConfig, config) ==
    IF pathOrConfig.t = "str"
    THEN [apiPath |-> pathOrConfig, actualConfig |-> config]
    ELSE IF pathOrConfig.t = "config"
         THEN [apiPath |-> s.apiPath, actualConfig |-> pathOrConfig]
         ELSE [apiPath |-> s.apiPath, actualConfig |-> Undefined]

HasExplicitQuery(actualConfig) ==
    actualConfig.t = "config" /\ "query" \in DOMAIN actualConfig.c

\* The query get() syncs from: the explicit one, else the router's
RouteQuery(s, rq, actualConfig) ==
    IF HasExplicitQuery(actualConfig) THEN actualConfig.c.query
    ELSE IF s.routerInstance THEN rq
    ELSE EmptyMap

\* Number(chars) for strings of digits, signs, letters and spaces:
\* [nan |-> TRUE] or [nan |-> FALSE, n |-> value]; the empty string is 0
ToNumber(chars) ==
    LET cs == Trim(chars)
        neg == cs # <<>> /\ Head(cs) = "-"
        body == IF cs # <<>> /\ Head(cs) \in {"-", "+"} THEN Tail(cs) ELSE cs
    IN IF cs = <<>> THEN [nan |-> FALSE, n |-> 0]
       ELSE IF body # <<>> /\ DigitPrefix(body) = body
            THEN [nan |-> FALSE,
                  n |-> IF neg THEN 0 - DigitsValue(body, 0) ELSE DigitsValue(body, 0)]
            ELSE [nan |-> TRUE]

\* A query string is a sequence of characters in which a key and a percent
\* escape (%26) each count as one character.
\* The pairs key=value of a flat mapping of strings joined by &, values in
\* application/x-www-form-urlencoded form, as a router or URLSearchParams
\* writes them
RECURSIVE Pairs(_, _)
Pairs(q, keys) ==
    IF keys = {} THEN <<>>
    ELSE LET k == CHOOSE x \in keys : TRUE
         IN <<k, "=">>
            \o [i \in 1..Len(q[k].s) |->
                   CASE q[k].s[i] = " " -> "+"
                     [] q[k].s[i] = "&" -> "%26"
                     [] q[k].s[i] = "=" -> "%3D"
                     [] q[k].s[i] = "+" -> "%2B"
                     [] q[k].s[i] = "%" -> "%25"
                     [] OTHER -> q[k].s[i]]
            \o (IF keys \ {k} # {} THEN <<"&">> ELSE <<>>)
            \o Pairs(q, keys \ {k})

Unescape_Verbatim(c) == c

\* The character an escaped character of a query string stands for
Unescape(c) ==
    CASE c = "+" -> " "
      [] c = "%26" -> "&"
      [] c = "%3D" -> "="
      [] c = "%2B" -> "+"
      [] c = "%25" -> "%"
      [] OTHER -> c

\* The index of the first c in cs, Len(cs) + 1 when there is none
RECURSIVE IndexOf(_, _)
IndexOf(cs, c) ==
    IF cs = <<>> \/ Head(cs) = c THEN 1 ELSE 1 + IndexOf(Tail(cs), c)

\* new URLSearchParams(cs).entries(): the pairs between the & signs, each
\* split at its first = sign and unescaped
RECURSIVE URLSearchParams(_)
URLSearchParams(cs) ==
    IF cs = <<>> THEN <<>>
    ELSE LET n == IndexOf(cs, "&")
             pair == SubSeq(cs, 1, n - 1)
             eq == IndexOf(pair, "=")
             value == SubSeq(pair, eq + 1, Len(pair))
         IN (IF pair = <<>> THEN <<>>
             ELSE <<[key |-> IF eq = 1 THEN "" ELSE pair[1],
                     value |-> [i \in 1..Len(value) |-> Unescape(value[i])]]>>)
            \o URLSearchParams(SubSeq(cs, n + 1, Len(cs)))

\* normalizeParams: a string starting with ? or & is parsed as a query
\* string, each value becoming a number when Number() can read it; any other
\* string names a method (there is none); a mapping is returned as it is
normalizeParams(params) ==
    IF "t" \in DOMAIN params
    THEN IF params.s # <<>> /\ Head(params.s) \in {"?", "&"}
         THEN LET entries == URLSearchParams(IF Head(params.s) = "?" THEN Tail(params.s)
                                             ELSE params.s)
                  Last(key) == entries[CHOOSE i \in 1..Len(entries) :
                                          /\ entries[i].key = key
                                          /\ \A j \in (i + 1)..Len(entries) :
                                                entries[j].key # key].value
              IN [key \in {entries[i].key : i \in 1..Len(entries)} |->
                     IF ToNumber(Last(key)).nan THEN Str(Last(key))
                     ELSE Num(ToNumber(Last(key)).n)]
         ELSE EmptyMap
    ELSE params

Parameters(actualConfig) ==
    IF actualConfig.t = "config" /\ "params" \in DOMAIN actualConfig.c
    THEN normalizeParams(actualConfig.c.params)
    ELSE EmptyMap

\* The string written into a filter for a query value
StringValue(queryValue) ==
    IF queryValue.t = "arr"
    THEN String(IF queryValue.items = <<>> THEN Undefined ELSE queryValue.items[1])
    ELSE String(queryValue)

SyncsKey_NoWhitelist(key, routeQuery) ==
    /\ key \in DOMAIN routeQuery
    /\ ~IsNullish(routeQuery[key])

\* TRUE when the sync loop writes the query's value for this key
SyncsKey(key, routeQuery) ==
    /\ key \in DOMAIN routeQuery
    /\ ~IsNullish(routeQuery[key])
    /\ key = "status" => StringValue(routeQuery[key]) \in {Verified, Unverified}

FilterKeys(s) == IF UsesFilters(s) THEN DOMAIN s.filters ELSE DOMAIN s.filterAttributes

SyncFilters(s, routeQuery) ==
    [s EXCEPT
        !.filters =
            [k \in DOMAIN s.filters |->
                IF k \in FilterKeys(s) /\ SyncsKey(k, routeQuery)
                THEN Str(StringValue(routeQuery[k]))
                ELSE s.filters[k]],
        !.filterAttributes =
            [k \in DOMAIN s.filterAttributes |->
                IF /\ k \in FilterKeys(s)
                   /\ SyncsKey(k, routeQuery)
                   /\ k \notin DOMAIN s.filters
                   /\ s.filterAttributes[k].t = "ref"
                THEN Ref(Str(StringValue(routeQuery[k])))
                ELSE s.filterAttributes[k]]]

SyncPage_NoGuard(s, routeQuery) ==
    IF "page" \in DOMAIN routeQuery /\ Truthy(routeQuery["page"])
    THEN LET page == ParseInt(String(routeQuery["page"]))
         IN IF ~page.nan THEN [s EXCEPT !.currentPage = page.n] ELSE s
    ELSE s

SyncPage_AcceptsZero(s, routeQuery) ==
    IF "page" \in DOMAIN routeQuery /\ Truthy(routeQuery["page"])
    THEN LET page == ParseInt(String(routeQuery["page"]))
         IN IF ~page.nan /\ page.n >= 0
            THEN [s EXCEPT !.currentPage = page.n]
            ELSE s
    ELSE s

SyncPage(s, routeQuery) ==
    IF "page" \in DOMAIN routeQuery /\ Truthy(routeQuery["page"])
    THEN LET page == ParseInt(String(routeQuery["page"]))
         IN IF ~page.nan /\ page.n > 0
            THEN [s EXCEPT !.currentPage = page.n]
            ELSE s
    ELSE s

\* "Update filters and pagination from query if available"
SyncFromQuery(s, routeQuery) ==
    IF DOMAIN routeQuery # {}
    THEN SyncPage(SyncFilters(s, routeQuery), routeQuery)
    ELSE s

RequestParameters_FiltersLast(s, explicit) ==
    Spread(Spread([page |-> Num(s.currentPage), per_page |-> Num(s.perPage)],
                  explicit),
           buildFilterParameters(s))

RequestParameters(s, explicit) ==
    Spread(Spread([page |-> Num(s.currentPage), per_page |-> Num(s.perPage)],
                  buildFilterParameters(s)),
           explicit)

(***************************************************************************)
(* get(): the code after the transport call settles.                       *)
(***************************************************************************)
Has(r, field) == field \in DOMAIN r

\* The fields the success branch assigns, with their fallbacks
FromResponse_PageFallsBackToZero(response) ==
    LET listing == IF Has(response.data, "listing") THEN response.data.listing
                   ELSE EmptyMap
    IN [data |-> IF Has(listing, "items") THEN listing.items ELSE <<>>,
        currentPage |-> IF Has(listing, "current_page") THEN listing.current_page ELSE 0,
        total |-> IF Has(listing, "total") THEN listing.total ELSE 0,
        perPage |-> IF Has(listing, "perPage") THEN listing.perPage ELSE FallbackPerPage,
        activeFilters |-> IF Has(response.data, "filters") THEN response.data.filters
                          ELSE <<>>]

FromResponse(response) ==
    LET listing == IF Has(response.data, "listing") THEN response.data.listing
                   ELSE EmptyMap
    IN [data |-> IF Has(listing, "items") THEN listing.items ELSE <<>>,
        currentPage |-> IF Has(listing, "current_page") THEN listing.current_page ELSE 1,
        total |-> IF Has(listing, "total") THEN listing.total ELSE 0,
        perPage |-> IF Has(listing, "perPage") THEN listing.perPage ELSE FallbackPerPage,
        activeFilters |-> IF Has(response.data, "filters") THEN response.data.filters
                          ELSE <<>>]

getResolved_KeepsFirst(s, response) ==
    LET r == FromResponse(response)
    IN IF s.hasLoadedOnce THEN loaded(s)
       ELSE loaded([s EXCEPT !.data = r.data,
                             !.currentPage = r.currentPage,
                             !.total = r.total,
                             !.perPage = r.perPage,
                             !.activeFilters = r.activeFilters,
                             !.hasLoadedOnce = TRUE])

getResolved(s, response) ==
    LET r == FromResponse(response)
    IN loaded([s EXCEPT !.data = r.data,
                        !.currentPage = r.currentPage,
                        !.total = r.total,
                        !.perPage = r.perPage,
                        !.activeFilters = r.activeFilters,
                        !.hasLoadedOnce = TRUE])

AxiosNotConfigured == <<"Axios instance not configured">>

\* message.includes(needle), messages being tuples of fragments
Includes(message, needle) ==
    \E i \in 1..Len(message) :
        /\ i + Len(needle) - 1 <= Len(message)
        /\ SubSeq(message, i, i + Len(needle) - 1) = needle

\* The test of the catch block for the error getAxios() throws
IsAxiosConfigurationError(err) ==
    err.isError /\ Includes(err.message, AxiosNotConfigured)

HasStatus(err) == Has(err, "response") /\ Has(err.response, "status")
StatusCode(err) == IF HasStatus(err) THEN Num(err.response.status) ELSE Undefined

PermissionMessage == <<"You do not have permission to access this resource.">>
FallbackMessage == <<"Failed to load data. Please try again later.">>

DefaultError_ServerFirst(err) ==
    IF /\ Has(err, "response")
       /\ Has(err.response, "data")
       /\ Has(err.response.data, "message")
       /\ err.response.data.message # <<>>
    THEN err.response.data.message
    ELSE IF HasStatus(err) /\ err.response.status = 403
         THEN PermissionMessage
         ELSE FallbackMessage

DefaultError(err) ==
    IF HasStatus(err) /\ err.response.status = 403
    THEN PermissionMessage
    ELSE IF /\ Has(err, "response")
            /\ Has(err.response, "data")
            /\ Has(err.response.data, "message")
            /\ err.response.data.message # <<>>
         THEN err.response.data.message
         ELSE FallbackMessage

\* The error handlers a use-site installs with onLoadError
CustomHandler == [t |-> "fn", name |-> "custom"]
ClearingHandler == [t |-> "fn", name |-> "clear"]

CallErrorHandler(handler, defaultError, statusCode) ==
    IF handler.name = "clear" THEN Null
    ELSE [t |-> "custom", s |-> defaultError, status |-> statusCode]

ErrorFor(s, err) ==
    IF s.errorHandler # Null
    THEN CallErrorHandler(s.errorHandler, DefaultError(err), StatusCode(err))
    ELSE Str(DefaultError(err))

getRejected_CountsAsLoaded(s, err) ==
    IF IsAxiosConfigurationError(err)
    THEN [out |-> "throw", s |-> loaded(s), handled |-> FALSE]
    ELSE [out |-> "return",
          s |-> loaded([s EXCEPT !.error = ErrorFor(s, err), !.hasLoadedOnce = TRUE]),
          handled |-> s.errorHandler # Null]

getRejected_Rethrows(s, err) ==
    IF err.isError
    THEN [out |-> "throw", s |-> loaded(s), handled |-> FALSE]
    ELSE [out |-> "return",
          s |-> loaded([s EXCEPT !.error = ErrorFor(s, err)]),
          handled |-> s.errorHandler # Null]

getRejected_NoRethrow(s, err) ==
    [out |-> "return",
     s |-> loaded([s EXCEPT !.error = ErrorFor(s, err)]),
     handled |-> s.errorHandler # Null]

\* The catch and finally blocks of get(); handled: the error handler ran
getRejected(s, err) ==
    IF IsAxiosConfigurationError(err)
    THEN [out |-> "throw", s |-> loaded(s), handled |-> FALSE]
    ELSE [out |-> "return",
          s |-> loaded([s EXCEPT !.error = ErrorFor(s, err)]),
          handled |-> s.errorHandler # Null]

\* The Error getAxios() throws
GetAxiosError ==
    [isError |-> TRUE,
     message |-> <<"Axios instance not configured", ". Please either: ...">>]

\* get() up to its await: it throws for a missing endpoint before touching
\* anything, throws out of the try block when no transport exists, and
\* otherwise leaves a GET pending
get(s, rq, pathOrConfig, config) ==
    LET a == ResolveArguments(s, pathOrConfig, config)
    IN IF ~Truthy(a.apiPath)
       THEN [out |-> "throw_path", s |-> s, handled |-> FALSE]
       ELSE LET synced == SyncFromQuery(s, RouteQuery(s, rq, a.actualConfig))
                started == [loading(synced) EXCEPT !.error = Null]
            IN IF ~getAxios(started)
               THEN LET caught == getRejected(started, GetAxiosError)
                    IN [out |-> IF caught.out = "throw" THEN "throw_axios" ELSE "return",
                        s |-> caught.s,
                        handled |-> caught.handled]
               ELSE [out |-> "await",
                     s |-> started,
                     url |-> a.apiPath,
                     params |-> RequestParameters(started, Parameters(a.actualConfig))]

(***************************************************************************)
(* remove, updateUrl and the synchronous parts of the other operations.    *)
(***************************************************************************)
\* item[key]: undefined when the item has no such field
Field(item, key) == IF key \in DOMAIN item THEN item[key] ELSE Undefined

RECURSIVE Filter(_, _, _)
Filter(items, id, key) ==
    IF items = <<>> THEN <<>>
    ELSE (IF Field(Head(items), key) # id THEN <<Head(items)>> ELSE <<>>)
         \o Filter(Tail(items), id, key)

Max(a, b) == IF a >= b THEN a ELSE b

remove_NoFloor(s, id, key) ==
    [s EXCEPT !.data = Filter(s.data, id, key),
              !.total = s.total - 1]

remove(s, id, key) ==
    [s EXCEPT !.data = Filter(s.data, id, key),
              !.total = Max(0, s.total - 1)]

\* The output of the query builder a use-site installs with queryParameters
BuilderQuery == [tab |-> Str(<<"a">>)]

UrlQuery_AlwaysPage(s) ==
    IF s.buildQueryParameters # Null
    THEN BuilderQuery
    ELSE LET filterParameters == buildFilterParameters(s)
         IN Spread([page |-> Str(String(Num(s.currentPage)))],
                   [k \in DOMAIN filterParameters |-> Str(String(filterParameters[k]))])

\* The query updateUrl() builds
UrlQuery(s) ==
    IF s.buildQueryParameters # Null
    THEN BuilderQuery
    ELSE LET filterParameters == buildFilterParameters(s)
         IN Spread(IF s.currentPage > 1
                   THEN [page |-> Str(String(Num(s.currentPage)))]
                   ELSE EmptyMap,
                   [k \in DOMAIN filterParameters |-> Str(String(filterParameters[k]))])

\* updateUrl() up to its await: the router push it leaves pending, or Null
\* when it returns at once (no router)
updateUrl(s) ==
    IF ~s.routerInstance THEN Null
    ELSE [t |-> "push", query |-> UrlQuery(s)]

\* The assignments goToPage() makes before it loads
SetPage_PerPageOnly(s, page, perPage) ==
    IF perPage # Undefined THEN [s EXCEPT !.perPage = perPage.n] ELSE s

SetPage(s, page, perPage) ==
    [s EXCEPT !.currentPage = page,
              !.perPage = IF perPage = Undefined THEN s.perPage ELSE perPage.n]

Bool(b) == [t |-> "bool", b |-> b]

ShouldAutoLoad_NeedsEndpoint(s, autoLoad) ==
    autoLoad # Bool(FALSE) /\ s.apiPath # Null

ShouldAutoLoad(s, autoLoad) ==
    autoLoad # Bool(FALSE) /\ (s.apiPath # Null \/ s.routerInstance)

\* ref.value = value / this.filters[key] = value of resetFilters, removeFilter
WriteFilter(s, key, value) ==
    IF In(key, s.filters)
    THEN [s EXCEPT !.filters = Spread(@, [k \in {key} |-> value])]
    ELSE IF In(key, s.filterAttributes) /\ Lookup(s.filterAttributes, key).t = "ref"
         THEN [s EXCEPT !.filterAttributes[key] = Ref(value)]
         ELSE s

\* "Reset all filter values to their defaults": each key has its own slot,
\* so the loop is one simultaneous assignment
WriteDefaults(s) ==
    [s EXCEPT
        !.filters = Spread(s.filters,
                           [k \in {d \in DOMAIN s.filterDefaults : In(d, s.filters)} |->
                               s.filterDefaults[k]]),
        !.filterAttributes =
            [k \in DOMAIN s.filterAttributes |->
                IF /\ k \in DOMAIN s.filterDefaults
                   /\ ~In(k, s.filters)
                   /\ s.filterAttributes[k].t = "ref"
                THEN Ref(s.filterDefaults[k])
                ELSE s.filterAttributes[k]]]

\* The explicit query resetFilters() and removeFilter() hand to get()
FilterQuery(s) ==
    LET filterParameters == buildFilterParameters(s)
    IN [k \in DOMAIN filterParameters |-> Str(String(filterParameters[k]))]

(***************************************************************************)
(* The environment: what the transport answers and what callers pass.      *)
(***************************************************************************)
TestPath == Str(<<"/api/test">>)
OtherPath == Str(<<"/api/other">>)

Item(n) == [id |-> Num(n)]
ActiveFilter == [key |-> "search", label |-> "Search", rawValue |-> "a", value |-> "a"]

\* A response carrying every field, for page p
FullResponse(p) ==
    [data |-> [listing |-> [items |-> <<Item(p)>>, current_page |-> p,
                            total |-> p, perPage |-> 10],
               filters |-> <<ActiveFilter>>]]
\* A response carrying the items alone
ItemsOnlyResponse == [data |-> [listing |-> [items |-> <<Item(1), Item(2)>>]]]
\* A response leaving out the listing and the filters
NoListingResponse == [data |-> EmptyMap]

Responses ==
    {FullResponse(p) : p \in 1..MaxPage} \cup {ItemsOnlyResponse, NoListingResponse}

\* What a transport rejects with
NetworkError == [isError |-> TRUE, message |-> <<"Network error">>]
ForbiddenError ==
    [isError |-> TRUE, message |-> <<"Forbidden">>,
     response |-> [status |-> 403, data |-> [message |-> <<"Keep out">>]]]
ServerError ==
    [isError |-> TRUE, message |-> <<"Request failed">>,
     response |-> [status |-> 500, data |-> [message |-> <<"Server error">>]]]
\* A rejection that is no Error object, with an empty server message
EmptyMessageError ==
    [isError |-> FALSE, message |-> <<"Axios instance not configured", " upstream">>,
     response |-> [status |-> 500, data |-> [message |-> <<>>]]]
\* An Error whose message carries the text getAxios() throws with
RelayedConfigurationError ==
    [isError |-> TRUE, message |-> <<"Proxy: ", "Axios instance not configured">>]

Errors == {NetworkError, ForbiddenError, ServerError, EmptyMessageError,
           RelayedConfigurationError}

Queries == {EmptyMap, [page |-> Str(<<"2">>)]}

(***************************************************************************)
(* delete(): argument resolution.                                          *)
(***************************************************************************)
OrElse(c, field, fallback) == IF field \in DOMAIN c THEN c[field] ELSE fallback

\* The three call shapes of delete(); out is "throw_id" or "throw_path" when
\* the call throws before its try block
ResolveDelete(s, pathOrConfig, idOrConfig, maybeConfig) ==
    IF pathOrConfig.t = "str"
    THEN IF idOrConfig.t = "config"
         THEN [out |-> "ok", url |-> pathOrConfig, id |-> idOrConfig.c.id,
               key |-> OrElse(idOrConfig.c, "key", "id"),
               refresh |-> OrElse(idOrConfig.c, "refresh", TRUE),
               onSuccess |-> "onSuccess" \in DOMAIN idOrConfig.c,
               onError |-> "onError" \in DOMAIN idOrConfig.c]
         ELSE IF IsNullish(idOrConfig)
              THEN [out |-> "throw_id"]
              ELSE LET c == IF maybeConfig.t = "config" THEN maybeConfig.c ELSE EmptyMap
                   IN [out |-> "ok", url |-> pathOrConfig, id |-> idOrConfig,
                       key |-> OrElse(c, "key", "id"),
                       refresh |-> OrElse(c, "refresh", TRUE),
                       onSuccess |-> "onSuccess" \in DOMAIN c,
                       onError |-> "onError" \in DOMAIN c]
    ELSE IF ~Truthy(s.apiPath)
         THEN [out |-> "throw_path"]
         ELSE [out |-> "ok",
               url |-> Str(s.apiPath.s \o <<"/">> \o String(pathOrConfig.c.id)),
               id |-> pathOrConfig.c.id,
               key |-> OrElse(pathOrConfig.c, "key", "id"),
               refresh |-> OrElse(pathOrConfig.c, "refresh", TRUE),
               onSuccess |-> "onSuccess" \in DOMAIN pathOrConfig.c,
               onError |-> "onError" \in DOMAIN pathOrConfig.c]

\* The catch block of delete(): how its promise settles on a thrown error
DeleteCaught_AlwaysRethrows(d) == "throw"

DeleteCaught(d) == IF d.onError THEN "return" ELSE "throw"

(***************************************************************************)
(* The state machine.                                                      *)
(***************************************************************************)
\* The use-sites the model starts from: a constructed Listing after its
\* configuration calls
Search == <<"a">>

UseSites ==
    { axios(path(NewListing, TestPath.s)),
      onLoadError(
          parameters(
              router([path(NewListing, TestPath.s) EXCEPT !.windowAxios = TRUE]),
              [search |-> Null, status |-> Str(All)]),
          CustomHandler),
      onLoadError(axios(path(NewListing, TestPath.s)), ClearingHandler),
      onLoadError(path(NewListing, TestPath.s), CustomHandler),
      filterRefs(axios(NewListing), [search |-> Ref(Str(Search))]) }

Init ==
    /\ this \in UseSites
    /\ tasks = <<>>
    /\ route = EmptyMap
    /\ last = [ev |-> "init"]

RemoveAt(ts, i) == SubSeq(ts, 1, i - 1) \o SubSeq(ts, i + 1, Len(ts))

\* History kept with each pending GET, in the field seen: "nothing", or what
\* has happened since it was issued: "cleared" (loaded() has run), or
\* "earlier_won" / "later_won" (a GET issued earlier / later has succeeded)
RECURSIVE Cleared(_)
Cleared(ts) ==
    IF ts = <<>> THEN <<>>
    ELSE <<IF Head(ts).pc = "get" /\ Head(ts).seen = "nothing"
           THEN [Head(ts) EXCEPT !.seen = "cleared"] ELSE Head(ts)>>
         \o Cleared(Tail(ts))

\* The pending tasks after the GET at position i has succeeded; tasks are
\* kept in the order of their latest step, pending GETs in issue order
RECURSIVE Beaten(_, _, _)
Beaten(ts, i, j) ==
    IF j > Len(ts) THEN <<>>
    ELSE <<IF j # i /\ ts[j].pc = "get"
           THEN [ts[j] EXCEPT !.seen = IF i < j THEN "earlier_won" ELSE "later_won"]
           ELSE ts[j]>>
         \o Beaten(ts, i, j + 1)

Pending(ts) == {i \in 1..Len(ts) : ts[i].pc = "get"}

\* The operations with code left to run after their inner get() settles
HasEpilogue(op) == op \in {"applyFilters", "resetFilters", "removeFilter"}

\* What becomes of an operation (its task without the fields of the step it
\* was suspended in) once the get() it called has had the outcome g:
\* a pending GET, a pending epilogue, or nothing (the operation is over)
AfterGetCall(base, g, ts) ==
    IF g.out = "await"
    THEN <<Spread(base, [pc |-> "get", seen |-> "nothing"])>>
    ELSE IF HasEpilogue(base.op)
         THEN <<Spread(base, [pc |-> "ret", res |-> "throw"])>>
         ELSE <<>>

\* The pending tasks after a call of get() with outcome g
OthersAfterGetCall(g, ts) ==
    CASE g.out = "throw_axios" -> Cleared(ts)
      [] OTHER -> ts

\* How the promise of the operation settles when its inner get() threw
Outcome(base, out) ==
    IF out \in {"await", "return"} THEN out
    ELSE IF base.op = "delete" THEN DeleteCaught(base) ELSE "throw"

\* The history of a call of get(): its arguments, how it went, and the GET
\* it issued
GetEvent(base, g, args) ==
    IF g.out = "await"
    THEN [ev |-> "get", op |-> base.op, args |-> args, out |-> g.out,
          outcome |-> "await", url |-> g.url, params |-> g.params]
    ELSE [ev |-> "get", op |-> base.op, args |-> args, out |-> g.out,
          outcome |-> Outcome(base, g.out), handled |-> g.handled]

GetInputs ==
    {<<Undefined, Undefined>>, <<OtherPath, Undefined>>, <<Str(<<>>), Undefined>>}
    \cup {<<Config([query |-> q]), Undefined>> : q \in Queries}

\* listing.get(pathOrConfig, config), for the arguments in inputs
GetWith(inputs) ==
    /\ Len(tasks) < MaxTasks
    /\ \E in \in inputs :
          LET g == get(this, route, in[1], in[2])
              base == [op |-> "get"]
          IN /\ this' = g.s
             /\ tasks' = OthersAfterGetCall(g, tasks) \o AfterGetCall(base, g, tasks)
             /\ last' = GetEvent(base, g, in)
    /\ UNCHANGED route

\* The task of an operation that awaits updateUrl() and then calls
\* get(undefined, config)
UrlTask(base, s, config) ==
    Spread(base, [pc |-> "url", push |-> updateUrl(s), config |-> config])

\* goToPage() up to its first await, called by the operation base
goToPage(base, s, page, perPage, autoLoad) ==
    LET paged == SetPage(s, page, perPage)
    IN [s |-> paged,
        task |-> IF ShouldAutoLoad(paged, autoLoad)
                 THEN <<UrlTask(base, paged, Undefined)>>
                 ELSE IF HasEpilogue(base.op)
                      THEN <<Spread(base, [pc |-> "ret", res |-> "return"])>>
                      ELSE <<>>]

AutoLoadInputs == {Undefined, Bool(FALSE)}

\* listing.goToPage(page, perPage, autoLoad)
GoToPageWith(pages, perPages, autoLoads) ==
    /\ Len(tasks) < MaxTasks
    /\ \E page \in pages, perPage \in perPages, autoLoad \in autoLoads :
          LET r == goToPage([op |-> "goToPage"], this, page, perPage, autoLoad)
          IN /\ this' = r.s
             /\ tasks' = tasks \o r.task
             /\ last' = [ev |-> "goToPage", page |-> page, perPage |-> perPage,
                         autoLoad |-> autoLoad]
    /\ UNCHANGED route

UrlResumes_PushFailureThrows ==
    \E i \in 1..Len(tasks) :
       /\ tasks[i].pc = "url"
       /\ \E navigated \in BOOLEAN :
             /\ tasks[i].push = Null => ~navigated
             /\ route' = IF navigated THEN tasks[i].push.query ELSE route
             /\ LET base == [f \in DOMAIN tasks[i] \ {"pc", "push", "config"} |-> tasks[i][f]]
                    rest == RemoveAt(tasks, i)
                    g == IF tasks[i].push # Null /\ ~navigated
                         THEN [s |-> this, out |-> "throw_push", handled |-> FALSE]
                         ELSE get(this, route', Undefined, tasks[i].config)
                IN /\ this' = g.s
                   /\ tasks' = OthersAfterGetCall(g, rest) \o AfterGetCall(base, g, rest)
                   /\ last' = Spread(GetEvent(base, g, <<Undefined, tasks[i].config>>),
                                     [navigated |-> navigated])

\* The await of updateUrl() resumes: the router has settled the push, having
\* navigated or not, and the operation calls get()
UrlResumes ==
    \E i \in 1..Len(tasks) :
       /\ tasks[i].pc = "url"
       /\ \E navigated \in BOOLEAN :
             /\ tasks[i].push = Null => ~navigated
             /\ route' = IF navigated THEN tasks[i].push.query ELSE route
             /\ LET base == [f \in DOMAIN tasks[i] \ {"pc", "push", "config"} |-> tasks[i][f]]
                    rest == RemoveAt(tasks, i)
                    g == get(this, route', Undefined, tasks[i].config)
                IN /\ this' = g.s
                   /\ tasks' = OthersAfterGetCall(g, rest) \o AfterGetCall(base, g, rest)
                   /\ last' = Spread(GetEvent(base, g, <<Undefined, tasks[i].config>>),
                                     [navigated |-> navigated])

\* The operation at position i after its GET has settled with out
AfterGetSettles(task, out) ==
    IF HasEpilogue(task.op)
    THEN <<Spread([f \in DOMAIN task \ {"pc", "seen"} |-> task[f]],
                  [pc |-> "ret", res |-> out])>>
    ELSE <<>>

\* The transport settles the GET of the task at position i
GetSettlesWith(responses, errors) ==
    /\ \E i \in Pending(tasks) :
          \/ \E response \in responses :
                /\ this' = getResolved(this, response)
                /\ tasks' = RemoveAt(Beaten(tasks, i, 1), i)
                            \o AfterGetSettles(tasks[i], "return")
                /\ last' = [ev |-> "settled", op |-> tasks[i].op, ok |-> TRUE,
                            out |-> "return", outcome |-> "return",
                            response |-> response, seen |-> tasks[i].seen]
          \/ \E err \in errors :
                LET r == getRejected(this, err)
                IN /\ this' = r.s
                   /\ tasks' = RemoveAt(Cleared(tasks), i)
                               \o AfterGetSettles(tasks[i], r.out)
                   /\ last' = [ev |-> "settled", op |-> tasks[i].op, ok |-> FALSE,
                               out |-> r.out, outcome |-> Outcome(tasks[i], r.out),
                               err |-> err, handled |-> r.handled,
                               seen |-> tasks[i].seen]
    /\ UNCHANGED route

\* listing.delete(...), up to the transport call
DeleteWith(inputs) ==
    /\ Len(tasks) < MaxTasks
    /\ \E in \in inputs :
          LET d == ResolveDelete(this, in[1], in[2], in[3])
          IN IF d.out # "ok"
             THEN /\ tasks' = tasks
                  /\ last' = [ev |-> "delete", out |-> d.out, outcome |-> "throw"]
             ELSE IF ~getAxios(this)
                  THEN /\ tasks' = tasks
                       /\ last' = [ev |-> "delete", out |-> "throw_axios",
                                   outcome |-> DeleteCaught(d), onError |-> d.onError]
                  ELSE /\ tasks' = Append(tasks,
                                      Spread([f \in DOMAIN d \ {"out"} |-> d[f]],
                                             [op |-> "delete", pc |-> "delete"]))
                       /\ last' = [ev |-> "delete", out |-> "await"]
    /\ UNCHANGED <<this, route>>

OnSuccessCalls_AfterRemoval(s, task) ==
    IF task.onSuccess
    THEN LET removed == remove(s, task.id, task.key)
         IN <<[id |-> task.id, data |-> removed.data, total |-> removed.total]>>
    ELSE <<>>

\* The calls of onSuccess(id, this) in the try block of delete(), each with
\* the data and total the callback finds in the controller
OnSuccessCalls(s, task) ==
    IF task.onSuccess
    THEN <<[id |-> task.id, data |-> s.data, total |-> s.total]>>
    ELSE <<>>

\* The transport settles the DELETE of the task at position i
DeleteSettlesWith(errors) ==
    \E i \in 1..Len(tasks) :
       /\ tasks[i].pc = "delete"
       /\ LET task == tasks[i]
              rest == RemoveAt(tasks, i)
              base == [f \in DOMAIN task \ {"pc"} |-> task[f]]
          IN \/ /\ \E err \in errors :
                      last' = [ev |-> "deleted", ok |-> FALSE, err |-> err,
                               task |-> base, onSuccess |-> <<>>,
                               outcome |-> DeleteCaught(task), onError |-> task.onError,
                               onErrorCalls |->
                                   IF task.onError
                                   THEN <<[error |-> err, statusCode |-> StatusCode(err)]>>
                                   ELSE <<>>,
                               thrown |-> IF task.onError THEN Undefined ELSE err]
                /\ tasks' = rest
                /\ UNCHANGED <<this, route>>
             \/ LET removed == remove(this, task.id, task.key)
                IN IF Len(removed.data) = 0 /\ removed.currentPage > 1
                   THEN LET r == goToPage(base, removed, removed.currentPage - 1,
                                          Undefined, Undefined)
                        IN /\ this' = r.s
                           /\ tasks' = rest \o r.task
                           /\ last' = [ev |-> "deleted", ok |-> TRUE, next |-> "goToPage",
                                       task |-> base,
                                       onSuccess |-> OnSuccessCalls(this, task)]
                           /\ UNCHANGED route
                   ELSE IF task.refresh
                        THEN LET g == get(removed, route, Undefined, Undefined)
                             IN /\ this' = g.s
                                /\ tasks' = OthersAfterGetCall(g, rest)
                                            \o AfterGetCall(base, g, rest)
                                /\ last' = [ev |-> "deleted", ok |-> TRUE, next |-> "get",
                                            task |-> base,
                                            onSuccess |-> OnSuccessCalls(this, task),
                                            get |-> GetEvent(base, g, <<Undefined, Undefined>>),
                                            out |-> g.out,
                                            outcome |-> Outcome(base, g.out)]
                                /\ UNCHANGED route
                        ELSE /\ this' = removed
                             /\ tasks' = rest
                             /\ last' = [ev |-> "deleted", ok |-> TRUE, next |-> "none",
                                         task |-> base,
                                         onSuccess |-> OnSuccessCalls(this, task)]
                             /\ UNCHANGED route

\* listing.resetFilters(), up to its first await
ResetFilters ==
    /\ Len(tasks) < MaxTasks
    /\ LET base == [op |-> "resetFilters"]
           begun == [this EXCEPT !.isResetting = TRUE]
       IN IF DOMAIN begun.filterDefaults = {}
          THEN LET r == goToPage(Spread(base, [viaGoToPage |-> TRUE]), begun, 1,
                                 Undefined, Undefined)
               IN /\ this' = r.s
                  /\ tasks' = tasks \o r.task
          ELSE LET written == [WriteDefaults(begun) EXCEPT !.currentPage = 1]
               IN /\ this' = written
                  /\ tasks' = Append(tasks,
                                 UrlTask(Spread(base, [viaGoToPage |-> FALSE]), written,
                                         Config([query |-> FilterQuery(written)])))
    /\ last' = [ev |-> "resetFilters"]
    /\ UNCHANGED route

FilterKeyInputs == {"search", "missing"}

\* listing.removeFilter(filterKey), up to its first await
RemoveFilterWith(keys) ==
    /\ Len(tasks) < MaxTasks
    /\ \E filterKey \in keys :
          IF ~In(filterKey, this.filterDefaults)
          THEN /\ UNCHANGED <<this, tasks>>
               /\ last' = [ev |-> "removeFilter", key |-> filterKey, known |-> FALSE]
          ELSE LET begun == [this EXCEPT !.removingFilterKey = Str(<<filterKey>>)]
                   written == [WriteFilter(begun, filterKey,
                                           Lookup(begun.filterDefaults, filterKey))
                                  EXCEPT !.currentPage = 1]
               IN /\ this' = written
                  /\ tasks' = Append(tasks,
                                 UrlTask([op |-> "removeFilter", key |-> filterKey,
                                          before |-> [k \in SourceKeys(this) |->
                                                         ActualValue(this, k)]],
                                         written,
                                         Config([query |-> FilterQuery(written)])))
                  /\ last' = [ev |-> "removeFilter", key |-> filterKey, known |-> TRUE]
    /\ UNCHANGED route

\* listing.applyFilters(), up to its first await
ApplyFilters ==
    /\ Len(tasks) < MaxTasks
    /\ LET r == goToPage([op |-> "applyFilters"], [this EXCEPT !.isFiltering = TRUE], 1,
                         Undefined, Undefined)
       IN /\ this' = r.s
          /\ tasks' = tasks \o r.task
    /\ last' = [ev |-> "applyFilters"]
    /\ UNCHANGED route

Epilogue_OnlyOnSuccess(s, task) ==
    IF task.res # "return" THEN s
    ELSE CASE task.op = "applyFilters" -> [closePanel(s) EXCEPT !.isFiltering = FALSE]
           [] task.op = "resetFilters" ->
                 [(IF ~task.viaGoToPage THEN closePanel(s) ELSE s)
                     EXCEPT !.isResetting = FALSE]
           [] OTHER -> [s EXCEPT !.removingFilterKey = Null]

\* The code of resetFilters, removeFilter and applyFilters after their await:
\* closePanel() when nothing was thrown, and the finally block
Epilogue(s, task) ==
    CASE task.op = "applyFilters" ->
            [(IF task.res = "return" THEN closePanel(s) ELSE s) EXCEPT !.isFiltering = FALSE]
      [] task.op = "resetFilters" ->
            [(IF task.res = "return" /\ ~task.viaGoToPage THEN closePanel(s) ELSE s)
                EXCEPT !.isResetting = FALSE]
      [] OTHER -> [s EXCEPT !.removingFilterKey = Null]

Returns ==
    /\ \E i \in 1..Len(tasks) :
          /\ tasks[i].pc = "ret"
          /\ this' = Epilogue(this, tasks[i])
          /\ tasks' = RemoveAt(tasks, i)
          /\ last' = [ev |-> "returned", op |-> tasks[i].op, outcome |-> tasks[i].res,
                      task |-> tasks[i]]
    /\ UNCHANGED route

\* The user navigates: the router's current query changes
Navigates ==
    /\ this.routerInstance
    /\ route' \in Queries \ {route}
    /\ last' = [ev |-> "navigated"]
    /\ UNCHANGED <<this, tasks>>

Loading ==
    /\ this' = loading(this)
    /\ last' = [ev |-> "loading"]
    /\ UNCHANGED <<tasks, route>>

Loaded ==
    /\ this' = loaded(this)
    /\ tasks' = Cleared(tasks)
    /\ last' = [ev |-> "loaded"]
    /\ UNCHANGED route

Reset ==
    /\ this' = reset(this)
    /\ tasks' = Cleared(tasks)
    /\ last' = [ev |-> "reset"]
    /\ UNCHANGED route

(***************************************************************************)
(* Spec: the request lifecycle of get(), with overlapping calls, against   *)
(* every response and rejection of the transport.                          *)
(***************************************************************************)
Next ==
    \/ GetWith(GetInputs)
    \/ GetSettlesWith(Responses, Errors)
    \/ Navigates
    \/ Loading
    \/ Loaded
    \/ Reset

Spec == Init /\ [][Next]_vars

(***************************************************************************)
(* SpecOps: every operation of the controller interleaving with the        *)
(* others, against a transport with one way to fail.                       *)
(***************************************************************************)
OpsSites ==
    { parameters(router(axios(path(NewListing, TestPath.s))),
                 [search |-> Str(Search)]),
      filterRefs(axios(NewListing), [search |-> Ref(Str(Search))]),
      path(NewListing, TestPath.s) }

InitOps ==
    /\ this \in OpsSites
    /\ tasks = <<>>
    /\ route = EmptyMap
    /\ last = [ev |-> "init"]

\* The last page, holding one item
LastPageResponse ==
    [data |-> [listing |-> [items |-> <<Item(MaxPage)>>, current_page |-> MaxPage,
                            total |-> 1]]]

NextOps ==
    \/ GetWith({<<Undefined, Undefined>>})
    \/ GoToPageWith(1..MaxPage, {Undefined}, AutoLoadInputs)
    \/ DeleteWith(({ <<Str(TestPath.s \o <<"/item">>), Num(MaxPage), Undefined>>,
                   <<Config([id |-> Num(MaxPage), refresh |-> FALSE, onError |-> TRUE]),
                   Undefined, Undefined>> }))
    \/ ResetFilters
    \/ RemoveFilterWith(FilterKeyInputs)
    \/ ApplyFilters
    \/ UrlResumes
    \/ GetSettlesWith({LastPageResponse}, {NetworkError})
    \/ DeleteSettlesWith({NetworkError})
    \/ Returns
    \/ Loading
    \/ Loaded
    \/ Reset

SpecOps == InitOps /\ [][NextOps]_vars

(***************************************************************************)
(* Properties of the request lifecycle.                                    *)
(***************************************************************************)
ExactlyOneFlag == this.isLoading # this.isUpdating
BothFlagsClear == ~this.isLoading /\ ~this.isUpdating

\* What a successful response leaves in the listing state
Expected(response) ==
    LET d == response.data
        present == "listing" \in DOMAIN d
    IN [data |-> IF present /\ "items" \in DOMAIN d.listing THEN d.listing.items ELSE <<>>,
        currentPage |-> IF present /\ "current_page" \in DOMAIN d.listing
                        THEN d.listing.current_page ELSE 1,
        total |-> IF present /\ "total" \in DOMAIN d.listing THEN d.listing.total ELSE 0,
        perPage |-> IF present /\ "perPage" \in DOMAIN d.listing
                    THEN d.listing.perPage ELSE 15,
        activeFilters |-> IF "filters" \in DOMAIN d THEN d.filters ELSE <<>>]

ShowsResponse(response) ==
    LET e == Expected(response)
    IN /\ this.data = e.data
       /\ this.currentPage = e.currentPage
       /\ this.total = e.total
       /\ this.perPage = e.perPage
       /\ this.activeFilters = e.activeFilters

\* C1 (as amended): while a GET is pending and nothing has cleared the flags
\* since it was issued (no other fetch has settled, no fetch has failed for
\* lack of a transport, loaded() and reset() have not been called), exactly
\* one of isLoading / isUpdating is true; immediately after any fetch settles,
\* with success or failure, both are false, other fetches still pending or not.
C1_FlagsOfAFetch ==
    /\ \A i \in Pending(tasks) : tasks[i].seen = "nothing" => ExactlyOneFlag
    /\ last.ev = "settled" => BothFlagsClear

\* A fetch has settled while another one is still in flight: both flags are
\* false although a GET is pending
C1_Witness ==
    /\ last.ev = "settled"
    /\ Pending(tasks) # {}
    /\ BothFlagsClear

\* C1 as stated: exactly one flag is true in every state in which a GET is
\* pending, and both are false immediately after a fetch settles
C1_AsStated ==
    /\ \A i \in Pending(tasks) : ExactlyOneFlag
    /\ last.ev = "settled" => BothFlagsClear

\* C2: isLoading and isUpdating are never both true, under any interleaving
\* of fetch, delete, goToPage, resetFilters, removeFilter, applyFilters,
\* loading(), loaded() and reset().
C2_NeverBothFlags == ~(this.isLoading /\ this.isUpdating)

\* A fetch started by another operation is in flight after an earlier
\* success, with isUpdating alone set
C2_Witness ==
    /\ this.hasLoadedOnce
    /\ this.isUpdating
    /\ ~this.isLoading
    /\ \E i \in Pending(tasks) : tasks[i].op # "get"

\* C3: isLoading implies that no fetch has succeeded yet (hasLoadedOnce is
\* false), and a call of get() that issues its GET after some fetch has
\* succeeded leaves isUpdating true and isLoading false.
C3_LoadingOnlyBeforeFirstSuccess ==
    /\ this.isLoading => ~this.hasLoadedOnce
    /\ (last.ev = "get" /\ last.out = "await" /\ this.hasLoadedOnce)
          => (this.isUpdating /\ ~this.isLoading)

C3_Witness ==
    /\ last.ev = "get"
    /\ last.out = "await"
    /\ this.hasLoadedOnce
    /\ this.isUpdating

\* C4: hasLoadedOnce is monotonic: no step of any operation takes it from
\* true to false.
C4_LoadedOnceIsMonotonic == [][this.hasLoadedOnce => this'.hasLoadedOnce]_vars

\* reset() has run after a successful fetch and hasLoadedOnce is still true
C4_Witness ==
    /\ last.ev = "reset"
    /\ this.hasLoadedOnce
    /\ this.data = <<>>

\* C5 (as amended): hasLoadedOnce goes from false to true at most once and
\* never back; it does so only at the settlement of a fetch whose GET
\* succeeded, every such settlement leaves it true (so the first one sets
\* it), and a fetch whose GET is rejected leaves it as it was although the
\* fetch resolves.
C5_LoadedOnceSetByFirstSuccess ==
    [][/\ this.hasLoadedOnce => this'.hasLoadedOnce
       /\ (~this.hasLoadedOnce /\ this'.hasLoadedOnce)
             => (last'.ev = "settled" /\ last'.ok)
       /\ last'.ev = "settled"
             => IF last'.ok THEN this'.hasLoadedOnce
                ELSE this'.hasLoadedOnce = this.hasLoadedOnce]_vars

\* The first successful fetch has just settled after nothing else had
\* happened to it, and hasLoadedOnce is true
C5_Witness ==
    /\ last.ev = "settled"
    /\ last.ok
    /\ last.seen = "nothing"
    /\ this.hasLoadedOnce

\* C5 as stated: once a fetch has resolved without a ConfigurationError,
\* hasLoadedOnce is true
C5_AsStated ==
    (last.ev = "settled" /\ last.out = "return") => this.hasLoadedOnce

\* C6: when a fetch succeeds after another fetch that overlapped it has
\* succeeded, data, currentPage, total, perPage and activeFilters are those of
\* the response that settled later, whichever of the two was issued first.
C6_LaterSettlementWins ==
    (last.ev = "settled" /\ last.ok /\ last.seen \in {"earlier_won", "later_won"})
       => ShowsResponse(last.response)

\* The fetch issued first settles last, after the one issued later succeeded,
\* and both have settled
C6_Witness ==
    /\ last.ev = "settled"
    /\ last.ok
    /\ last.seen = "later_won"
    /\ Pending(tasks) = {}
    /\ ShowsResponse(last.response)

\* C7: when the transport GET is rejected with anything but the error the
\* catch block takes for the missing transport (an Error whose message has
\* the text of getAxios()), the fetch resolves and error holds the derived
\* message passed through the error handler.
C7_RequestErrorIsStored ==
    (/\ last.ev = "settled"
     /\ ~last.ok
     /\ ~(last.err.isError /\ Includes(last.err.message, AxiosNotConfigured)))
       => /\ last.out = "return"
          /\ last.outcome = "return"
          /\ this.error = IF this.errorHandler = Null
                          THEN Str(DefaultError(last.err))
                          ELSE CallErrorHandler(this.errorHandler, DefaultError(last.err),
                                                StatusCode(last.err))

\* A rejected GET has been turned into a message by the custom handler
C7_Witness ==
    /\ last.ev = "settled"
    /\ ~last.ok
    /\ last.out = "return"
    /\ this.errorHandler = CustomHandler
    /\ this.error # Null
    /\ this.error.t = "custom"

\* The default message C8 describes for a rejection
C8_DefaultMessage(err) ==
    LET response == IF "response" \in DOMAIN err THEN err.response ELSE EmptyMap
        body == IF "data" \in DOMAIN response THEN response.data ELSE EmptyMap
    IN IF "status" \in DOMAIN response /\ response.status = 403
       THEN <<"You do not have permission to access this resource.">>
       ELSE IF "message" \in DOMAIN body /\ body.message # <<>>
            THEN body.message
            ELSE <<"Failed to load data. Please try again later.">>

\* C8: on a failed fetch the default message is the permission text for
\* status 403, else the server's message when it is present and not empty,
\* else the fallback; error is what the handler returns for that message and
\* the status when a handler is configured (null when it returns null), and
\* the message itself otherwise.
C8_DefaultMessageAndHandler ==
    (last.ev = "settled" /\ ~last.ok /\ last.out = "return")
       => LET message == C8_DefaultMessage(last.err)
              status == IF "response" \in DOMAIN last.err
                           /\ "status" \in DOMAIN last.err.response
                        THEN Num(last.err.response.status) ELSE Undefined
          IN CASE this.errorHandler = Null -> this.error = Str(message)
               [] this.errorHandler = ClearingHandler -> this.error = Null
               [] OTHER -> this.error = [t |-> "custom", s |-> message, status |-> status]

\* A 403 carrying a server message has produced the permission text
C8_Witness ==
    /\ last.ev = "settled"
    /\ ~last.ok
    /\ last.err = ForbiddenError
    /\ this.error = Str(PermissionMessage)

\* C9 (as amended): a call of get() that fails for lack of a transport
\* rejects, does not invoke the error handler, and leaves error null and both
\* flags false; a call that fails for lack of an endpoint rejects, does not
\* invoke the handler and leaves the whole listing state, flags and error
\* included, as it was; and without a transport every call fails in one of
\* these two ways.
C9_ConfigurationErrorIsRethrown ==
    [][last'.ev = "get"
          => /\ ~getAxios(this) => last'.out \in {"throw_path", "throw_axios"}
             /\ last'.out = "throw_axios"
                   => /\ last'.outcome = "throw"
                      /\ ~last'.handled
                      /\ this'.error = Null
                      /\ ~this'.isLoading /\ ~this'.isUpdating
             /\ last'.out = "throw_path"
                   => /\ last'.outcome = "throw"
                      /\ ~last'.handled
                      /\ this' = this]_vars

\* A call without an endpoint has thrown while another fetch is in flight:
\* the flag of that fetch is still set
C9_Witness ==
    /\ last.ev = "get"
    /\ last.out = "throw_path"
    /\ last.outcome = "throw"
    /\ ExactlyOneFlag
    /\ Pending(tasks) # {}

\* C9 as stated: after a fetch has failed with a ConfigurationError its
\* promise rejects, the handler was not invoked and both flags are false
C9_AsStated ==
    (last.ev = "get" /\ last.out \in {"throw_path", "throw_axios"})
       => /\ last.outcome = "throw"
          /\ ~last.handled
          /\ BothFlagsClear

\* C10: after a successful fetch that overlapped no other fetch, data,
\* currentPage, total, perPage and activeFilters are those of the response
\* (empty, 1, 0, 15 and empty where the response leaves them out) and
\* hasLoadedOnce is true.
C10_SuccessStoresResponse ==
    (last.ev = "settled" /\ last.ok /\ last.seen = "nothing" /\ Pending(tasks) = {})
       => (ShowsResponse(last.response) /\ this.hasLoadedOnce)

\* A response without listing has been stored with every fallback
C10_Witness ==
    /\ last.ev = "settled"
    /\ last.ok
    /\ last.seen = "nothing"
    /\ Pending(tasks) = {}
    /\ last.response = NoListingResponse
    /\ this.currentPage = 1
    /\ this.perPage = 15
    /\ this.hasLoadedOnce

(***************************************************************************)
(* SpecFilters: one call of get() at a time, for every content of a filter *)
(* store of either style, with and without explicit params.                *)
(***************************************************************************)
Idle == tasks = <<>>

\* The values a filter slot is given
FilterValues ==
    {Null, Str(<<>>), Str(<<" ">>), Str(All), Str(<<" ">> \o All \o <<" ">>), Str(<<" ", "a", " ">>),
     Num(0), Num(7)}

\* The entries of the mapping handed to filterRefs: external cells and plain
\* values
FilterEntries ==
    {Ref(v) : v \in FilterValues \cup {Undefined}} \cup {Num(7), Str(<<"a", " ">>)}

FilterSites ==
    {parameters(axios(path(NewListing, TestPath.s)), [search |-> v, per_page |-> w]) :
        v \in FilterValues, w \in FilterValues}
    \cup
    {filterRefs(axios(path(NewListing, TestPath.s)), [search |-> e, per_page |-> f]) :
        e \in FilterEntries, f \in FilterEntries}

InitFilters ==
    /\ this \in FilterSites
    /\ tasks = <<>>
    /\ route = EmptyMap
    /\ last = [ev |-> "init"]

NextFilters ==
    \/ Idle /\ GetWith(({ <<Undefined, Undefined>>,
                        <<Config([params |-> [search |-> Str(<<"x">>), page |-> Num(9)]]), Undefined>>,
                        <<TestPath, Config([params |-> [per_page |-> Num(5)]])>> }))
    \/ GetSettlesWith({NoListingResponse}, {NetworkError})

SpecFilters == InitFilters /\ [][NextFilters]_vars

\* The explicit params of a call get(args[1], args[2])
ExplicitParams(args) ==
    LET given == IF args[1].t = "str" THEN args[2] ELSE args[1]
    IN IF given.t = "config" /\ "params" \in DOMAIN given.c THEN given.c.params
       ELSE EmptyMap

\* C11: the parameters of every transport GET are page = currentPage and
\* per_page = perPage, overlaid by the filter parameters, overlaid by the
\* explicit params: an explicit param wins every collision, and a filter
\* parameter wins over page and per_page.
C11_ParamsMergeOrder ==
    (last.ev = "get" /\ last.out = "await")
       => LET explicit == ExplicitParams(last.args)
              filterParameters == buildFilterParameters(this)
          IN /\ DOMAIN last.params
                   = {"page", "per_page"} \cup DOMAIN filterParameters \cup DOMAIN explicit
             /\ \A k \in DOMAIN last.params :
                   last.params[k] =
                      IF k \in DOMAIN explicit THEN explicit[k]
                      ELSE IF k \in DOMAIN filterParameters THEN filterParameters[k]
                      ELSE IF k = "page" THEN Num(this.currentPage)
                      ELSE Num(this.perPage)

\* An explicit param has replaced the filter parameter of the same name, and
\* a filter parameter has replaced per_page
C11_Witness ==
    /\ last.ev = "get"
    /\ last.out = "await"
    /\ "search" \in DOMAIN ExplicitParams(last.args)
    /\ "search" \in DOMAIN buildFilterParameters(this)
    /\ buildFilterParameters(this)["search"] # last.params["search"]
    /\ "per_page" \in DOMAIN buildFilterParameters(this)
    /\ last.params["per_page"] = Num(7)

\* TRUE for the values C12 says survive
C12_Survives(v) ==
    /\ v.t \notin {"null", "undef"}
    /\ v.t = "str" => (Trim(v.s) # <<>> /\ v.s # All)

\* C12: whatever the filter store holds, canonical map or external cells,
\* the filter parameters of a GET without explicit params have exactly the
\* keys whose value is not null, not undefined, not empty after trimming and
\* not exactly "all"; surviving strings are sent trimmed and surviving numbers
\* unchanged (a dropped per_page filter leaves perPage in its place).
C12_FilterParametersKeepNonEmpty ==
    (last.ev = "get" /\ last.out = "await" /\ DOMAIN ExplicitParams(last.args) = {})
       => /\ DOMAIN last.params \subseteq {"page", "per_page"} \cup SourceKeys(this)
          /\ \A k \in SourceKeys(this) :
                LET v == ActualValue(this, k)
                IN IF C12_Survives(v)
                   THEN /\ k \in DOMAIN last.params
                        /\ last.params[k] = IF v.t = "str" THEN Str(Trim(v.s)) ELSE v
                   ELSE IF k = "per_page"
                        THEN last.params[k] = Num(this.perPage)
                        ELSE k \notin DOMAIN last.params

\* A padded string was sent trimmed while a blank one was dropped
C12_Witness ==
    /\ last.ev = "get"
    /\ last.out = "await"
    /\ DOMAIN ExplicitParams(last.args) = {}
    /\ ~UsesFilters(this)
    /\ ActualValue(this, "search") = Str(<<" ", "a", " ">>)
    /\ last.params["search"] = Str(<<"a">>)
    /\ ActualValue(this, "per_page") = Str(<<" ">>)
    /\ last.params["per_page"] = Num(this.perPage)

\* C13: get() acts on its first argument when that is a string, and on the
\* preconfigured endpoint otherwise (the first argument being the options
\* object or absent); when that leaves no endpoint (none configured, or an
\* empty string), the call throws before any GET is issued and changes no
\* listing state.
C13_EndpointResolution ==
    [][last'.ev = "get"
          => LET first == last'.args[1]
                 endpoint == IF first.t = "str" THEN first ELSE this.apiPath
             IN IF endpoint.t = "str" /\ endpoint.s # <<>>
                THEN /\ last'.out # "throw_path"
                     /\ last'.out = "await" => last'.url = endpoint
                ELSE /\ last'.out = "throw_path"
                     /\ last'.outcome = "throw"
                     /\ this' = this
                     /\ tasks' = tasks]_vars

\* A call with the options object as first argument has issued its GET to
\* the preconfigured endpoint
C13_Witness ==
    /\ last.ev = "get"
    /\ last.args[1].t = "config"
    /\ last.out = "await"
    /\ last.url = TestPath

(***************************************************************************)
(* SpecSync: one call of get() at a time on a controller with a router,    *)
(* for the queries the router or the caller may hold.                      *)
(***************************************************************************)
SyncSites ==
    { parameters(router(axios(path(NewListing, TestPath.s))),
                 [search |-> Str(Search), status |-> Str(All)]),
      filterRefs(router(axios(path(NewListing, TestPath.s))),
                 [search |-> Ref(Str(Search)), status |-> Ref(Null), level |-> Num(3)]) }

BogusStatusQuery == [search |-> Str(<<"b">>), status |-> Str(<<"bogus">>)]
VerifiedQuery == [status |-> Str(Verified), page |-> Str(<<"2">>)]

\* The queries of the router and of callers: with repeated keys (arrays), a
\* key without value (null), numbers, an unknown key, and pages that are
\* zero, negative, not numeric, or numeric only in their prefix
SyncQueries ==
    {EmptyMap, BogusStatusQuery, VerifiedQuery,
     [search |-> Arr(<<Str(<<"c">>), Str(<<"d">>)>>),
      status |-> Arr(<<Str(Unverified)>>),
      page |-> Str(<<"0">>)],
     [search |-> Null, level |-> Str(<<"9">>), page |-> Str(<<"x">>)],
     [search |-> Num(7), page |-> Num(3), other |-> Str(<<"z">>)],
     [page |-> Str(<<"-", "1">>)],
     [page |-> Arr(<<Str(<<" ", "2", "x">>), Str(<<"5">>)>>)]}

InitSync ==
    /\ this \in SyncSites
    /\ tasks = <<>>
    /\ route \in SyncQueries
    /\ last = [ev |-> "init"]

NextSync ==
    \/ Idle /\ GetWith(({<<Undefined, Undefined>>}
                        \cup {<<Config([query |-> q]), Undefined>> : q \in SyncQueries}
                        \cup {<<Config([query |-> VerifiedQuery, params |-> [page |-> Num(9)]]), Undefined>>}))
    \/ GetSettlesWith({ItemsOnlyResponse}, {NetworkError})

SpecSync == InitSync /\ [][NextSync]_vars

\* The explicit query of a call get(args[1], args[2]), or Undefined
ExplicitQuery(args) ==
    LET given == IF args[1].t = "str" THEN args[2] ELSE args[1]
    IN IF given.t = "config" /\ "query" \in DOMAIN given.c THEN given.c.query
       ELSE Undefined

\* The external query a call of get() takes effect from
EffectiveQuery(args) ==
    IF ExplicitQuery(args) # Undefined THEN ExplicitQuery(args)
    ELSE IF this.routerInstance THEN route
    ELSE EmptyMap

\* The string form of a query value, its first element for an array
Stringified(queryValue) ==
    IF queryValue.t = "arr" THEN String(queryValue.items[1]) ELSE String(queryValue)

AllowedStatusValue(queryValue) ==
    Stringified(queryValue) \in
        {<<"v", "e", "r", "i", "f", "i", "e", "d">>,
         <<"u", "n", "v", "e", "r", "i", "f", "i", "e", "d">>}

\* TRUE when the slot of a filter key can be written: an entry of the
\* canonical map or an external cell, not a plain value given to filterRefs
Writable(k) ==
    UsesFilters(this) \/ this.filterAttributes[k].t = "ref"

\* C15 (as amended): during query sync the filter named status is
\* overwritten only when the string form of the incoming value is "verified"
\* or "unverified"; every other known filter key whose query value is
\* neither null nor undefined is overwritten with the string form of that
\* value (of its first element for an array), provided its slot is the
\* canonical map or an external cell; every other slot, a plain value given
\* to filterRefs included, keeps the value it had before the fetch.
C15_QuerySyncOfFilters ==
    [][(last'.ev = "get" /\ last'.out # "throw_path")
          => LET q == EffectiveQuery(last'.args)
             IN \A k \in SourceKeys(this) :
                   ActualValue(this', k) =
                      IF /\ k \in DOMAIN q
                         /\ q[k].t \notin {"null", "undef"}
                         /\ k = "status" => AllowedStatusValue(q[k])
                         /\ Writable(k)
                      THEN Str(Stringified(q[k]))
                      ELSE ActualValue(this, k)]_vars

\* A query with a bogus status has been synced: search was overwritten and
\* status kept its value
C15_Witness ==
    /\ last.ev = "get"
    /\ last.out = "await"
    /\ EffectiveQuery(last.args) = BogusStatusQuery
    /\ ActualValue(this, "search") = Str(<<"b">>)
    /\ ActualValue(this, "status") \notin {Str(<<"bogus">>), Str(Verified), Str(Unverified)}

\* C15 as stated: status is overwritten only by "verified" or "unverified",
\* and every other known filter key present in the query is overwritten with
\* the stringified value
C15_AsStated ==
    [][(last'.ev = "get" /\ last'.out # "throw_path")
          => LET q == EffectiveQuery(last'.args)
             IN \A k \in SourceKeys(this) :
                   ActualValue(this', k) =
                      IF /\ k \in DOMAIN q
                         /\ k = "status" => AllowedStatusValue(q[k])
                      THEN Str(Stringified(q[k]))
                      ELSE ActualValue(this, k)]_vars

\* The page a query carries: [valid |-> FALSE] or [valid |-> TRUE, p |-> page]
PageOf(q) ==
    IF "page" \notin DOMAIN q THEN [valid |-> FALSE]
    ELSE LET parsed == ParseInt(String(q["page"]))
         IN IF ~parsed.nan /\ parsed.n > 0 THEN [valid |-> TRUE, p |-> parsed.n]
            ELSE [valid |-> FALSE]

\* C16 (as amended): when the effective external query carries a page entry
\* that parses as a positive integer p, currentPage is p when the request is
\* built, and the GET carries page = p unless a filter parameter or an
\* explicit param named page replaces it; an absent, non-numeric or
\* non-positive page entry leaves currentPage unchanged.
C16_QuerySyncOfPage ==
    [][(last'.ev = "get" /\ last'.out # "throw_path")
          => LET page == PageOf(EffectiveQuery(last'.args))
             IN /\ this'.currentPage = IF page.valid THEN page.p ELSE this.currentPage
                /\ (/\ last'.out = "await"
                    /\ "page" \notin DOMAIN ExplicitParams(last'.args)
                    /\ "page" \notin DOMAIN buildFilterParameters(this'))
                      => last'.params["page"] = Num(this'.currentPage)]_vars

\* The router's query carried page 2 and the GET was issued for page 2
C16_Witness ==
    /\ last.ev = "get"
    /\ last.out = "await"
    /\ ExplicitQuery(last.args) = Undefined
    /\ route = VerifiedQuery
    /\ this.currentPage = 2
    /\ last.params["page"] = Num(2)

\* C16 as stated: with a page entry that parses as a positive integer p, the
\* GET is issued with page = p
C16_AsStated ==
    (last.ev = "get" /\ last.out = "await"
        /\ PageOf(EffectiveQuery(last.args)).valid)
       => last.params["page"] = Num(PageOf(EffectiveQuery(last.args)).p)

(***************************************************************************)
(* SpecSeq: the operations of the controller called one at a time, each    *)
(* after the one before it has settled, with a router whose pushes may     *)
(* fail to navigate.                                                       *)
(***************************************************************************)
SeqSites ==
    { defaults(parameters(router(axios(path(NewListing, TestPath.s))),
                          [search |-> Str(<<"b">>), tag |-> Str(<<"t">>)]),
               [search |-> Str(Search)]),
      filterRefs(axios(NewListing), [search |-> Ref(Str(Search))]),
      queryParameters(router(axios(NewListing)), [t |-> "function"]),
      axios(path(NewListing, TestPath.s)),
      filterRefs(parameters(router(axios(path(NewListing, TestPath.s))),
                            [search |-> Str(<<"b">>)]),
                 [search |-> Ref(Str(<<"c">>)), tag |-> Ref(Str(<<"t">>))]) }

InitSeq ==
    /\ this \in SeqSites
    /\ tasks = <<>>
    /\ route = EmptyMap
    /\ last = [ev |-> "init"]

NextSeq ==
    \/ Idle /\ GetWith(({<<Undefined, Undefined>>, <<OtherPath, Undefined>>}
                        \cup {<<Config([query |-> q]), Undefined>> :
                        q \in Queries \cup {[tag |-> Str(<<"u">>)], [page |-> Str(<<"0">>)]}}))
    \/ Idle /\ GoToPageWith(0..MaxPage, {Undefined, Num(10)}, AutoLoadInputs)
    \/ Idle /\ DeleteWith(({ <<OtherPath, Num(MaxPage), Undefined>>,
                           <<OtherPath, Config([id |-> Num(MaxPage), onSuccess |-> TRUE]), Undefined>>,
                           <<OtherPath, Num(MaxPage), Config([refresh |-> FALSE])>>,
                           <<Config([id |-> Num(MaxPage), refresh |-> FALSE, onSuccess |-> TRUE,
                           onError |-> TRUE]),
                           Undefined, Undefined>> }))
    \/ Idle /\ ResetFilters
    \/ Idle /\ RemoveFilterWith(FilterKeyInputs)
    \/ Idle /\ ApplyFilters
    \/ UrlResumes
    \/ GetSettlesWith({LastPageResponse, ItemsOnlyResponse, FullResponse(0)}, {NetworkError})
    \/ DeleteSettlesWith({NetworkError, ForbiddenError})
    \/ Returns
    \/ Idle /\ Reset

SpecSeq == InitSeq /\ [][NextSeq]_vars

(***************************************************************************)
(* Claims C14, C17, C18 and C19, checked under SpecSeq.                    *)
(***************************************************************************)
\* The query of the options object a call of get() was given, in whichever
\* argument the caller put it; Undefined when it was given none
GivenQuery(args) ==
    LET given == IF args[1].t = "config" THEN args[1] ELSE args[2]
    IN IF given.t = "config" /\ "query" \in DOMAIN given.c THEN given.c.query
       ELSE Undefined

\* The filters and the page after a sync from the query q alone
SyncedFrom(q) ==
    /\ \A k \in SourceKeys(this) :
          ActualValue(this', k) =
             IF /\ k \in DOMAIN q
                /\ q[k].t \notin {"null", "undef"}
                /\ k = "status" => AllowedStatusValue(q[k])
                /\ Writable(k)
             THEN Str(Stringified(q[k]))
             ELSE ActualValue(this, k)
    /\ this'.currentPage = IF PageOf(q).valid THEN PageOf(q).p ELSE this.currentPage

\* C14 as stated: when get() is given an options object with a query, even
\* an empty one, the filters and currentPage take their values from that
\* query alone and nothing from the router's current query, the get() of
\* resetFilters and removeFilter included.
C14_AsStated ==
    [][(/\ last'.ev = "get"
        /\ last'.out # "throw_path"
        /\ GivenQuery(last'.args) # Undefined)
          => SyncedFrom(GivenQuery(last'.args))]_vars

\* The items a removal of id by key leaves: those whose key field differs
\* from id, in their order
Survivors(data, id, key) ==
    SelectSeq(data, LAMBDA item : ~(key \in DOMAIN item /\ item[key] = id))

\* TRUE of a step in which a DELETE succeeds and the removal empties a page
\* after the first
EmptiesPage ==
    /\ last'.ev = "deleted"
    /\ last'.ok
    /\ Survivors(this.data, last'.task.id, last'.task.key) = <<>>
    /\ this.currentPage > 1

\* C17 as stated: when a successful delete leaves data empty while
\* currentPage = p > 1, currentPage becomes p - 1 and a transport GET is
\* issued for page p - 1: the delete goes on to a get(), and that get()
\* issues a GET for the page p - 1 it finds in currentPage.
C17_AsStated ==
    [][/\ EmptiesPage
          => /\ this'.currentPage = this.currentPage - 1
             /\ \E i \in 1..Len(tasks') : tasks'[i].op = "delete" /\ tasks'[i].pc = "url"
       /\ (last'.ev = "get" /\ last'.op = "delete")
          => /\ last'.out = "await"
             /\ last'.params["page"] = Num(this.currentPage)
             /\ this'.currentPage = this.currentPage]_vars

\* C18 as stated: when a delete succeeds with refresh true and the page is
\* not emptied (or currentPage is 1), a transport GET follows, issued for
\* the page that was current when delete was called.
C18_AsStated ==
    [][(/\ last'.ev = "deleted"
        /\ last'.ok
        /\ last'.task.refresh
        /\ ~EmptiesPage)
          => /\ "get" \in DOMAIN last'
             /\ last'.get.out = "await"
             /\ last'.get.params["page"] = Num(this.currentPage)
             /\ this'.currentPage = this.currentPage]_vars

\* C19: when the transport DELETE resolves, onSuccess (when given) is invoked
\* once with the id and a controller that still holds the item; the item is
\* then removed, and a GET of the delete is issued only afterwards: none is
\* pending before the DELETE resolves, and one issued in the same step finds
\* the item gone. When the DELETE rejects, onSuccess is not invoked and
\* nothing is removed.
C19_DeleteOrder ==
    [][last'.ev = "deleted"
          => LET task == last'.task
             IN /\ \A i \in 1..Len(tasks) : tasks[i].op = "delete" => tasks[i].pc = "delete"
                /\ IF last'.ok
                   THEN /\ last'.onSuccess =
                              IF task.onSuccess
                              THEN <<[id |-> task.id, data |-> this.data,
                                      total |-> this.total]>>
                              ELSE <<>>
                        /\ this'.data = Survivors(this.data, task.id, task.key)
                   ELSE /\ last'.onSuccess = <<>>
                        /\ this'.data = this.data]_vars

\* A DELETE with an onSuccess callback has resolved: the callback saw the
\* item, the item is gone, and the refresh GET has been issued
C19_Witness ==
    /\ last.ev = "deleted"
    /\ last.ok
    /\ last.task.onSuccess
    /\ Len(last.onSuccess) = 1
    /\ Len(last.onSuccess[1].data) = Len(this.data) + 1
    /\ last.next = "get"
    /\ last.out = "await"
    /\ \E i \in 1..Len(tasks) : tasks[i].op = "delete" /\ tasks[i].pc = "get"

(***************************************************************************)
(* SpecRemove: the local removal of delete(), for every content of data of *)
(* at most MaxItems items, ids that are numbers and strings, the default   *)
(* key and another one, and totals from zero up.                           *)
(***************************************************************************)
InitRemove ==
    /\ \E data \in UNION {[1..n -> {Item(1), Item(2), [id |-> Str(<<"2">>)],
                                    [slug |-> Str(<<"a">>)],
                                    [id |-> Num(2), slug |-> Str(<<"a">>)]}]
                             : n \in 0..MaxItems},
          total \in 0..MaxItems :
          this = [axios(path(NewListing, TestPath.s))
                     EXCEPT !.data = data, !.total = total]
    /\ tasks = <<>>
    /\ route = EmptyMap
    /\ last = [ev |-> "init"]

NextRemove ==
    \/ Idle /\ DeleteWith(
          {<<Config([id |-> id, refresh |-> FALSE, onSuccess |-> TRUE]),
             Undefined, Undefined>> : id \in {Num(2), Str(<<"2">>)}}
          \cup {<<OtherPath, Str(<<"a">>),
                  Config([key |-> "slug", refresh |-> FALSE, onSuccess |-> TRUE])>>})
    \/ DeleteSettlesWith({NetworkError})

SpecRemove == InitRemove /\ [][NextRemove]_vars

\* C20: the local removal after a successful DELETE keeps exactly the items
\* whose key field differs from the deleted id, in their original order, and
\* sets total to max(0, total - 1).
C20_RemovalKeepsTheOthers ==
    [][(last'.ev = "deleted" /\ last'.ok)
          => /\ this'.data = Survivors(this.data, last'.task.id, last'.task.key)
             /\ this'.total = IF this.total - 1 > 0 THEN this.total - 1 ELSE 0]_vars

\* Two of three items carried the deleted id and total was already zero:
\* the one other item is left and total is still zero
C20_Witness ==
    /\ last.ev = "deleted"
    /\ last.ok
    /\ last.task.id = Num(2)
    /\ Len(last.onSuccess) = 1
    /\ last.onSuccess[1].data = <<Item(2), [id |-> Str(<<"2">>)], Item(2)>>
    /\ last.onSuccess[1].total = 0
    /\ this.data = <<[id |-> Str(<<"2">>)]>>
    /\ this.total = 0

(***************************************************************************)
(* Claims C21 to C30.                                                      *)
(***************************************************************************)
\* C21: when the transport DELETE rejects and onError was supplied, onError
\* is invoked once with the error and its HTTP status (undefined when it has
\* none) and the delete returns normally; without onError the delete throws
\* the error it caught. Either way the controller is unchanged and nothing
\* of the delete is left pending, so no GET is issued.
C21_DeleteFailure ==
    [][(last'.ev = "deleted" /\ ~last'.ok)
          => LET err == last'.err
                 status == IF "response" \in DOMAIN err /\ "status" \in DOMAIN err.response
                           THEN Num(err.response.status) ELSE Undefined
             IN /\ IF last'.task.onError
                   THEN /\ last'.onErrorCalls = <<[error |-> err, statusCode |-> status]>>
                        /\ last'.outcome = "return"
                   ELSE /\ last'.onErrorCalls = <<>>
                        /\ last'.outcome = "throw"
                        /\ last'.thrown = err
                /\ this' = this
                /\ \A i \in 1..Len(tasks') : tasks'[i].op # "delete"]_vars

\* A DELETE with an onError callback was rejected with a 403 while the
\* controller held data
C21_Witness ==
    /\ last.ev = "deleted"
    /\ ~last.ok
    /\ last.task.onError
    /\ last.err = ForbiddenError
    /\ last.onErrorCalls[1].statusCode = Num(403)
    /\ last.outcome = "return"
    /\ this.data # <<>>
    /\ tasks = <<>>

\* TRUE when goToPage goes on to load: autoLoad is not false and an endpoint
\* or a router is configured
Gate(autoLoad) ==
    autoLoad # Bool(FALSE) /\ (this.apiPath # Null \/ this.routerInstance)

\* The pending continuations of goToPage() calls in ts
GoToPageTasks(ts) == {i \in 1..Len(ts) : ts[i].op = "goToPage"}

\* C22 (as amended): goToPage always sets currentPage, and perPage when
\* given. If and only if autoLoad is not false and an endpoint or a router
\* is configured it then runs the URL update, which pushes exactly when a
\* router is configured, and only after that calls get(); that get() issues
\* a GET when an endpoint is configured and throws the no-endpoint error
\* otherwise. When the gate is closed nothing is left pending: no push and
\* no GET.
C22_GoToPage ==
    [][/\ last'.ev = "goToPage"
          => /\ this'.currentPage = last'.page
             /\ this'.perPage = IF last'.perPage = Undefined THEN this.perPage
                                ELSE last'.perPage.n
             /\ route' = route
             /\ IF Gate(last'.autoLoad)
                THEN \E i \in GoToPageTasks(tasks') :
                        /\ tasks'[i].pc = "url"
                        /\ (tasks'[i].push # Null) = this.routerInstance
                ELSE tasks' = tasks
       /\ (last'.ev = "get" /\ last'.op = "goToPage")
          => /\ \E i \in GoToPageTasks(tasks) : tasks[i].pc = "url"
             /\ IF this.apiPath = Null
                THEN last'.out = "throw_path" /\ last'.outcome = "throw"
                ELSE (this.axiosInstance \/ this.windowAxios)
                        => last'.out = "await" /\ last'.url = this.apiPath]_vars

\* goToPage on a controller with an endpoint and no router has gone on to
\* its GET for the page, with nothing pushed
C22_Witness ==
    /\ last.ev = "get"
    /\ last.op = "goToPage"
    /\ last.out = "await"
    /\ ~this.routerInstance
    /\ route = EmptyMap
    /\ this.currentPage = MaxPage
    /\ last.params["page"] = Num(MaxPage)

\* C22 as stated: goToPage sets currentPage (and perPage when given) and,
\* if and only if autoLoad is not false and an endpoint or a router is
\* configured, pushes the URL and afterwards issues a transport GET;
\* otherwise it does neither.
C22_AsStated ==
    [][/\ last'.ev = "goToPage"
          => /\ this'.currentPage = last'.page
             /\ this'.perPage = IF last'.perPage = Undefined THEN this.perPage
                                ELSE last'.perPage.n
             /\ IF Gate(last'.autoLoad)
                THEN \E i \in GoToPageTasks(tasks') :
                        tasks'[i].pc = "url" /\ tasks'[i].push # Null
                ELSE tasks' = tasks
       /\ (last'.ev = "get" /\ last'.op = "goToPage")
          => last'.out = "await"]_vars

\* C23 as stated: once resetFilters() has completed on a controller with
\* configured defaults, every filter slot holds its configured default, and
\* currentPage is 1 (read here where the server has no say in it: when the
\* fetch of resetFilters has been issued).
C23_AsStated ==
    /\ (/\ last.ev = "returned"
        /\ last.op = "resetFilters"
        /\ ~last.task.viaGoToPage)
          => \A k \in SourceKeys(this) : ActualValue(this, k) = this.filterDefaults[k]
    /\ (/\ last.ev = "get"
        /\ last.op = "resetFilters"
        /\ DOMAIN this.filterDefaults # {})
          => this.currentPage = 1

\* C24 as stated: once removeFilter(key) has completed for a key with a
\* configured default, the slot of the key holds that default and every
\* other filter has the value it had when removeFilter was called.
C24_AsStated ==
    (last.ev = "returned" /\ last.op = "removeFilter")
       => \A k \in SourceKeys(this) :
             ActualValue(this, k) = IF k = last.task.key THEN this.filterDefaults[k]
                                    ELSE last.task.before[k]

\* C25: removeFilter(key) for a key without a configured default changes
\* nothing in the controller (filters, currentPage, removingFilterKey and the
\* loading flags included) and leaves nothing pending: no router push and no
\* GET.
C25_RemoveUnknownFilter ==
    [][(last'.ev = "removeFilter" /\ last'.key \notin DOMAIN this.filterDefaults)
          => /\ this' = this
             /\ tasks' = tasks
             /\ route' = route]_vars

\* removeFilter was called with an unknown key on a controller that has
\* filters with defaults and stands on a later page
C25_Witness ==
    /\ last.ev = "removeFilter"
    /\ last.key \notin DOMAIN this.filterDefaults
    /\ DOMAIN this.filterDefaults # {}
    /\ this.currentPage = MaxPage
    /\ this.data # <<>>
    /\ tasks = <<>>

\* The operations of ts that are under way
Running(ts) == {ts[i].op : i \in 1..Len(ts)}

\* C26: isResetting, removingFilterKey and isFiltering are set when
\* resetFilters, removeFilter (for a key with a default) and applyFilters
\* start, stay set while the operation is under way, and are cleared (false /
\* null) when it settles, whether it returns or throws.
C26_BusyFlags ==
    [][/\ last'.ev = "resetFilters" => this'.isResetting /\ "resetFilters" \in Running(tasks')
       /\ last'.ev = "applyFilters" => this'.isFiltering /\ "applyFilters" \in Running(tasks')
       /\ (last'.ev = "removeFilter" /\ last'.key \in DOMAIN this.filterDefaults)
             => /\ this'.removingFilterKey = Str(<<last'.key>>)
                /\ "removeFilter" \in Running(tasks')
       /\ "resetFilters" \in Running(tasks') => this'.isResetting
       /\ "applyFilters" \in Running(tasks') => this'.isFiltering
       /\ "removeFilter" \in Running(tasks') => this'.removingFilterKey # Null
       /\ (last'.ev = "returned" /\ last'.outcome \in {"return", "throw"})
             => /\ last'.op = "resetFilters" => ~this'.isResetting
                /\ last'.op = "applyFilters" => ~this'.isFiltering
                /\ last'.op = "removeFilter" => this'.removingFilterKey = Null]_vars

\* resetFilters() has thrown the no-endpoint error of its inner fetch and
\* isResetting is clear again
C26_Witness ==
    /\ last.ev = "returned"
    /\ last.op = "resetFilters"
    /\ last.outcome = "throw"
    /\ this.apiPath = Null
    /\ DOMAIN this.filterDefaults # {}
    /\ ~this.isResetting

\* The pending URL updates of ts
UrlUpdates(ts) == {i \in 1..Len(ts) : ts[i].pc = "url"}

\* C27: a URL update pushes nothing when no router is configured. With a
\* router and a custom query-builder the pushed query is the builder's
\* output; without a builder it holds the entries of buildFilterParameters
\* as strings, and page, as a string, only when currentPage is above 1.
C27_PushedQuery ==
    \A i \in UrlUpdates(tasks) :
       IF ~this.routerInstance THEN tasks[i].push = Null
       ELSE /\ tasks[i].push # Null
            /\ tasks[i].push.query =
                  IF this.buildQueryParameters # Null THEN [tab |-> Str(<<"a">>)]
                  ELSE LET fp == buildFilterParameters(this)
                       IN [k \in DOMAIN fp \cup (IF this.currentPage > 1 THEN {"page"} ELSE {}) |->
                             IF k \in DOMAIN fp THEN Str(String(fp[k]))
                             ELSE Str(NatChars(this.currentPage))]

\* A push for page 2 with the two filters is pending
C27_Witness ==
    \E i \in UrlUpdates(tasks) :
       /\ tasks[i].push # Null
       /\ this.buildQueryParameters = Null
       /\ tasks[i].push.query = [page |-> Str(<<"2">>), search |-> Str(<<"b">>),
                                 tag |-> Str(<<"t">>)]

\* C28: whatever becomes of the router push (it navigates, is aborted or
\* rejects), the operation that awaited it goes on to its get(), which issues
\* the GET whenever an endpoint is configured: the operation is not failed by
\* the navigation.
C28_PushFailureIsIgnored ==
    [][(UrlUpdates(tasks) # {} /\ UrlUpdates(tasks') = {})
          => /\ last'.ev = "get"
             /\ last'.op \in {"goToPage", "applyFilters", "resetFilters", "removeFilter",
                              "delete"}
             /\ this.apiPath # Null
                   => /\ last'.out = "await"
                      /\ last'.outcome = "await"
                      /\ \E i \in 1..Len(tasks') :
                            tasks'[i].op = last'.op /\ tasks'[i].pc = "get"]_vars

\* The push of resetFilters() did not navigate and its GET has been issued
C28_Witness ==
    /\ last.ev = "get"
    /\ last.op = "resetFilters"
    /\ this.routerInstance
    /\ ~last.navigated
    /\ last.out = "await"
    /\ \E i \in 1..Len(tasks) : tasks[i].op = "resetFilters" /\ tasks[i].pc = "get"

\* The one store that is to supply the filter parameters in the state s: the
\* canonical map when it has entries, else the external cells and plain
\* values handed to filterRefs
Store(s) ==
    IF DOMAIN s.filters # {} THEN s.filters
    ELSE [k \in DOMAIN s.filterAttributes |->
             IF s.filterAttributes[k].t = "ref" THEN s.filterAttributes[k].value
             ELSE s.filterAttributes[k]]

\* TRUE when every entry of the filter parameters sent is an entry of the
\* store, trimmed when a string (as a string for a URL push)
FromStore(sent, s, asString) ==
    \A k \in DOMAIN sent :
       /\ k \in DOMAIN Store(s)
       /\ LET v == Store(s)[k]
              kept == IF v.t = "str" THEN Str(Trim(v.s)) ELSE v
          IN sent[k] = IF asString THEN Str(String(kept)) ELSE kept

\* C29: the filter parameters of every GET and of every URL push come from
\* one store: the canonical filters map when it has entries, the external
\* cells otherwise; no key or value of the other store is sent.
C29_OneFilterStore ==
    [][/\ (last'.ev = "get" /\ last'.out = "await")
          => FromStore([k \in DOMAIN last'.params \ {"page", "per_page"} |-> last'.params[k]],
                       this', FALSE)
       /\ \A i \in UrlUpdates(tasks') :
             (tasks'[i].push # Null /\ this'.buildQueryParameters = Null)
                => FromStore([k \in DOMAIN tasks'[i].push.query \ {"page"} |->
                                 tasks'[i].push.query[k]],
                             this', TRUE)]_vars

\* A GET went out from a controller holding both stores with different
\* values: it carries the canonical value and nothing of the cells
C29_Witness ==
    /\ last.ev = "get"
    /\ last.out = "await"
    /\ DOMAIN this.filters = {"search"}
    /\ DOMAIN this.filterAttributes = {"search", "tag"}
    /\ this.filterAttributes["search"] = Ref(Str(<<"c">>))
    /\ last.params["search"] = Str(<<"b">>)
    /\ "tag" \notin DOMAIN last.params

\* TRUE of a step that is given a page below 1 from outside: goToPage called
\* with such a page, or a response reporting such a current_page
GivenPageBelowOne ==
    \/ last'.ev = "goToPage" /\ last'.page < 1
    \/ /\ last'.ev = "settled"
       /\ last'.ok
       /\ "listing" \in DOMAIN last'.response.data
       /\ "current_page" \in DOMAIN last'.response.data.listing
       /\ last'.response.data.listing.current_page < 1

\* C30 (as amended): no fetch (whatever its query), delete, resetFilters,
\* removeFilter, applyFilters or reset takes currentPage below 1; only
\* goToPage called with a page below 1, and a response reporting a
\* current_page below 1, do.
C30_PageAtLeastOne ==
    [][(this.currentPage >= 1 /\ ~GivenPageBelowOne) => this'.currentPage >= 1]_vars

\* A fetch was given the query page=0 on page 2 and left currentPage at 2
C30_Witness ==
    /\ last.ev = "get"
    /\ last.out = "await"
    /\ GivenQuery(last.args) = [page |-> Str(<<"0">>)]
    /\ this.currentPage = MaxPage
    /\ last.params["page"] = Num(MaxPage)

\* C30 as stated: currentPage is at least 1 in every reachable state.
C30_AsStated == this.currentPage >= 1

\* C34 as stated: whenever the transport DELETE succeeds, the delete promise
\* resolves and onError is never invoked: none of the steps delete() takes
\* after the DELETE (its call of get(), and the settling of the GET) ends in
\* the catch block of delete().
C34_AsStated ==
    /\ (last.ev = "deleted" /\ last.ok /\ last.next = "get")
       => last.out \in {"await", "return"}
    /\ (last.ev \in {"get", "settled"} /\ last.op = "delete")
       => last.out \in {"await", "return"}

\* C36 as stated: with an endpoint configured, the get() that goToPage(p)
\* calls after its URL update issues a transport GET with page = p, whatever
\* query the router holds and whether or not the push navigated; the get()
\* of applyFilters issues its GET with page = 1 and the filter values held
\* when applyFilters was called. (Stated for pages p >= 1, which goToPage
\* has stored in currentPage when its URL update resumes.)
C36_AsStated ==
    [][(/\ last'.ev = "get"
        /\ last'.op \in {"goToPage", "applyFilters"}
        /\ Truthy(this.apiPath)
        /\ this.currentPage >= 1)
          => /\ last'.out = "await"
             /\ last'.params["page"] =
                   IF last'.op = "applyFilters" THEN Num(1) ELSE Num(this.currentPage)
             /\ last'.op = "applyFilters"
                   => [k \in DOMAIN last'.params \ {"page", "per_page"} |-> last'.params[k]]
                         = buildFilterParameters(this)]_vars

\* C40 (as amended): when a delete succeeds with refresh = false and the
\* page is not emptied (or currentPage is 1), currentPage is unchanged and
\* the delete is over: no URL update, no router push and no get() follow.
\* When the page is emptied on a page p > 1, delete calls goToPage(p - 1)
\* although refresh is false: currentPage becomes p - 1 and, when an
\* endpoint or a router is configured, the URL update (a push exactly when a
\* router is configured) and then get() follow; that get() issues a GET when
\* an endpoint is configured and otherwise throws the no-endpoint error into
\* the catch block of delete(). With neither endpoint nor router nothing
\* follows.
C40_DeleteWithoutRefresh ==
    [][/\ (last'.ev = "deleted" /\ last'.ok /\ ~last'.task.refresh)
          => /\ route' = route
             /\ IF EmptiesPage
                THEN /\ this'.currentPage = this.currentPage - 1
                     /\ last'.next = "goToPage"
                     /\ IF Gate(Undefined)
                        THEN \E i \in 1..Len(tasks') :
                                /\ tasks'[i].op = "delete"
                                /\ tasks'[i].pc = "url"
                                /\ (tasks'[i].push # Null) = this.routerInstance
                        ELSE \A i \in 1..Len(tasks') : tasks'[i].op # "delete"
                ELSE /\ this'.currentPage = this.currentPage
                     /\ last'.next = "none"
                     /\ \A i \in 1..Len(tasks') : tasks'[i].op # "delete"
       /\ (/\ last'.ev = "get"
           /\ last'.op = "delete"
           /\ \E i \in 1..Len(tasks) : tasks[i].op = "delete" /\ ~tasks[i].refresh)
          => IF this.apiPath = Null
             THEN /\ last'.out = "throw_path"
                  /\ \A i \in 1..Len(tasks) :
                        tasks[i].op = "delete"
                           => last'.outcome = IF tasks[i].onError THEN "return" ELSE "throw"
             ELSE last'.out = "await" /\ last'.url = this.apiPath]_vars

\* A delete with refresh = false emptied page 2 and its step back has issued
\* the GET; the delete had been given no refresh of its own
C40_Witness ==
    /\ last.ev = "get"
    /\ last.op = "delete"
    /\ last.out = "await"
    /\ \E i \in 1..Len(tasks) :
          tasks[i].op = "delete" /\ tasks[i].pc = "get" /\ ~tasks[i].refresh

\* C40 as stated: when a delete succeeds with refresh = false and the page
\* is not emptied (or currentPage is 1), no GET and no push is issued and
\* currentPage is unchanged; when the page is emptied on a page above 1,
\* the step back to the previous page and its fetch happen.
C40_AsStated ==
    [][/\ (last'.ev = "deleted" /\ last'.ok /\ ~last'.task.refresh)
          => /\ route' = route
             /\ IF EmptiesPage
                THEN /\ this'.currentPage = this.currentPage - 1
                     /\ \E i \in 1..Len(tasks') :
                           tasks'[i].op = "delete" /\ tasks'[i].pc = "url"
                ELSE /\ this'.currentPage = this.currentPage
                     /\ \A i \in 1..Len(tasks') : tasks'[i].op # "delete"
       /\ (/\ last'.ev = "get"
           /\ last'.op = "delete"
           /\ \E i \in 1..Len(tasks) : tasks[i].op = "delete" /\ ~tasks[i].refresh)
          => last'.out = "await"]_vars

\* C35 as stated: once no fetch is in flight, if the fetch that settled last
\* succeeded then error is null, also when that fetch overlapped an earlier
\* fetch that failed.
C35_AsStated ==
    (Pending(tasks) = {} /\ last.ev = "settled" /\ last.ok) => this.error = Null

\* C37 as stated: no value in the mapping returned by buildFilterParameters
\* is the string "all" or the empty string, and so no filter parameter of a
\* transport GET is (the explicit params of the call set aside).
C37_AsStated ==
    /\ \A k \in DOMAIN buildFilterParameters(this) :
          buildFilterParameters(this)[k] \notin {Str(All), Str(<<>>)}
    /\ (last.ev = "get" /\ last.out = "await")
          => \A k \in DOMAIN last.params \ DOMAIN ExplicitParams(last.args) :
                last.params[k] \notin {Str(All), Str(<<>>)}

\* TRUE when filterRefs was the most recent filter-definition call of s: the
\* filterAttributes are what filterRefs was given (external cells or plain
\* values), none a binding created by parameters
CellsLast(s) ==
    /\ DOMAIN s.filterAttributes # {}
    /\ \A k \in DOMAIN s.filterAttributes : s.filterAttributes[k].t # "binding"

\* The value held by the external cell (or plain value) of the key k
Cell(s, k) ==
    IF s.filterAttributes[k].t = "ref" THEN s.filterAttributes[k].value
    ELSE s.filterAttributes[k]

\* C38 as stated: after filterRefs is the most recent filter-definition
\* call, whatever configuration calls came before, the filter parameters of
\* every GET are the values of the external cells (trimmed), and query sync,
\* resetFilters and removeFilter write the cells: none of them changes the
\* canonical map of an earlier parameters() call.
C38_AsStated ==
    [][CellsLast(this)
          => /\ (last'.ev = "get" /\ last'.out = "await")
                   => \A k \in DOMAIN last'.params \ {"page", "per_page"} :
                         /\ k \in DOMAIN this'.filterAttributes
                         /\ LET v == Cell(this', k)
                            IN last'.params[k] = IF v.t = "str" THEN Str(Trim(v.s)) ELSE v
             /\ this'.filters = this.filters]_vars

(***************************************************************************)
(* SpecConfig: the configuration calls and the synchronous helpers         *)
(* (filter definitions, defaults, filter visibility, the reactive          *)
(* projection) between fetches, filter resets and filter removals, one     *)
(* operation at a time, for keys that are defined, undefined and inherited *)
(* from Object.prototype.                                                  *)
(***************************************************************************)
ConfigKeys == {"search", "missing"} \cup Inherited

InitConfig ==
    /\ this \in { parameters(axios(path(NewListing, TestPath.s)),
                             [search |-> Str(<<"b">>)]),
                  filterRefs(axios(path(NewListing, TestPath.s)),
                             [search |-> Ref(Str(Search))]) }
    /\ tasks = <<>>
    /\ route = EmptyMap
    /\ last = [ev |-> "init"]

NextConfig ==
    \/ /\ Idle
       /\ \E fs \in {[tag |-> Ref(Str(<<"t">>))]} :
             /\ this' = filterRefs(this, fs)
             /\ last' = [ev |-> "define", keys |-> DOMAIN fs]
       /\ UNCHANGED <<tasks, route>>
    \/ /\ Idle
       /\ \E initials \in {[search |-> Str(<<"c">>)]} :
             /\ this' = parameters(this, initials)
             /\ last' = [ev |-> "define", keys |-> DOMAIN initials]
       /\ UNCHANGED <<tasks, route>>
    \/ /\ Idle
       /\ \E key \in ConfigKeys :
             /\ this' = defaults(this, [k \in {key} |-> Str(<<"d">>)])
             /\ last' = [ev |-> "defaults", key |-> key]
       /\ UNCHANGED <<tasks, route>>
    \/ /\ Idle
       /\ \E key \in ConfigKeys :
             \/ this' = showFilter(this, key) /\ last' = [ev |-> "showFilter", key |-> key]
             \/ this' = hideFilter(this, key) /\ last' = [ev |-> "hideFilter", key |-> key]
             \/ this' = toggleFilter(this, key) /\ last' = [ev |-> "toggleFilter", key |-> key]
       /\ UNCHANGED <<tasks, route>>
    \/ Idle /\ GetWith({<<Config([query |-> [search |-> Str(<<"q">>),
                                             missing |-> Str(<<"q">>)]]), Undefined>>})
    \/ Idle /\ ResetFilters
    \/ Idle /\ RemoveFilterWith(ConfigKeys)
    \/ UrlResumes
    \/ GetSettlesWith({NoListingResponse}, {NetworkError})
    \/ Returns

SpecConfig == InitConfig /\ [][NextConfig]_vars

(***************************************************************************)
(* SpecProjection: reads and writes through the Proxy of Listing.create()  *)
(* and through the computed bindings, between fetches.                     *)
(***************************************************************************)
\* The values written through the reactive projection
WrittenValues == {Null, Undefined, Str(<<>>), Str(<<"x">>), Num(7)}

NextProjection ==
    \/ /\ Idle
       /\ \E prop \in ConfigKeys \cup {"panelOpen"} :
             last' = [ev |-> "read", prop |-> prop, value |-> ProxyGet(this, prop)]
       /\ UNCHANGED <<this, tasks, route>>
    \/ /\ Idle
       /\ \E prop \in ConfigKeys, value \in WrittenValues :
             /\ this' = ProxySet(this, prop, value)
             /\ last' = [ev |-> "write", via |-> "proxy", prop |-> prop, value |-> value]
       /\ UNCHANGED <<tasks, route>>
    \/ /\ Idle
       /\ \E key \in this.bindings, value \in WrittenValues :
             /\ this' = [this EXCEPT !.filters[key] = value]
             /\ last' = [ev |-> "write", via |-> "binding", prop |-> key, value |-> value]
       /\ UNCHANGED <<tasks, route>>
    \/ Idle /\ GetWith({<<Undefined, Undefined>>})
    \/ GetSettlesWith({NoListingResponse}, {NetworkError})

SpecProjection == InitConfig /\ [][NextProjection]_vars

\* C31 as stated: isFilterVisible is true for every key without tracked
\* visibility; showFilter, hideFilter and toggleFilter change the visibility
\* of a key defined through filterRefs or parameters (hide makes it
\* invisible, show visible, toggle the opposite of what it was, so that two
\* toggles restore it) and change nothing at all for any other key.
C31_AsStated ==
    [][/\ \A key \in ConfigKeys \ DOMAIN this.filterVisibility : isFilterVisible(this, key)
       /\ \A key \in DOMAIN this.filterAttributes :
             isFilterVisible(toggleFilter(toggleFilter(this, key), key), key)
                = isFilterVisible(this, key)
       /\ last'.ev \in {"showFilter", "hideFilter", "toggleFilter"}
             => IF last'.key \in DOMAIN this.filterAttributes
                THEN this' = [this EXCEPT !.filterVisibility[last'.key] =
                                 CASE last'.ev = "showFilter" -> TRUE
                                   [] last'.ev = "hideFilter" -> FALSE
                                   [] OTHER -> ~this.filterVisibility[last'.key]]
                ELSE this' = this]_vars

\* C39 as stated: after any sequence of filter definitions, defaults(),
\* show/hide/toggleFilter, fetches, resetFilters and removeFilter,
\* filterDefaults and filterVisibility have exactly the keys given to the
\* most recent filter definition; defaults() with an unknown key adds
\* nothing and changes no default, and query sync adds no key to the filter
\* store.
C39_AsStated ==
    [][/\ DOMAIN this'.filterDefaults = DOMAIN this'.filterAttributes
       /\ DOMAIN this'.filterVisibility = DOMAIN this'.filterAttributes
       /\ last'.ev = "define" => DOMAIN this'.filterAttributes = last'.keys
       /\ last'.ev # "define" => DOMAIN this'.filterAttributes = DOMAIN this.filterAttributes
       /\ (last'.ev = "defaults" /\ last'.key \notin DOMAIN this.filterAttributes)
             => this'.filterDefaults = this.filterDefaults
       /\ last'.ev = "get"
             => /\ DOMAIN this'.filters = DOMAIN this.filters
                /\ DOMAIN this'.filterAttributes = DOMAIN this.filterAttributes]_vars

\* C25 as stated: removeFilter(key) for a key that has no configured default
\* changes no state and issues neither a router push nor a GET: nothing is
\* left pending.
C25_AsStated ==
    [][(last'.ev = "removeFilter" /\ last'.key \notin DOMAIN this.filterDefaults)
          => /\ this' = this
             /\ tasks' = tasks
             /\ route' = route]_vars

\* C33 as stated: for a key defined through parameters(), writing a value v
\* through the reactive projection stores v in the canonical map, and
\* reading the key returns the empty string when the stored value is null
\* or undefined and its string form otherwise; a property that is no filter
\* key passes through: it is read from and written to the instance itself
\* (for constructor, the instance's own class).
C33_AsStated ==
    [][/\ last'.ev = "write"
          => IF last'.prop \in this.bindings
             THEN this' = [this EXCEPT !.filters[last'.prop] = last'.value]
             ELSE /\ this'[last'.prop] = last'.value
                  /\ this'.filters = this.filters
       /\ last'.ev = "read"
          => last'.value =
                IF last'.prop \in this.bindings
                THEN IF IsNullish(this.filters[last'.prop]) THEN Str(<<>>)
                     ELSE Str(String(this.filters[last'.prop]))
                ELSE IF last'.prop \in DOMAIN this THEN this[last'.prop]
                ELSE IF last'.prop \in Inherited THEN [t |-> "function", name |-> "Listing"]
                ELSE Undefined]_vars

(***************************************************************************)
(* SpecRoundTrip: get() called with params given as the query string of    *)
(* the controller's own filters, for filter values that need escaping and  *)
(* values that read as numbers.                                            *)
(***************************************************************************)
RoundTripValues ==
    {Null, Str(<<" ">> \o All \o <<" ">>), Str(<<"a", " ", "b">>),
     Str(<<"a", "&", "b", "=", "c">>), Str(<<"a", "+">>), Str(<<"5", "0", "%">>),
     Str(<<"0", "7">>), Str(<<"-", "7">>), Str(<<"7", "a">>), Num(7), Num(0)}

InitRoundTrip ==
    /\ this \in
          {parameters(axios(path(NewListing, TestPath.s)), [search |-> v, tag |-> w]) :
              v \in RoundTripValues, w \in RoundTripValues}
          \cup
          {filterRefs(axios(path(NewListing, TestPath.s)), [search |-> Ref(v), tag |-> Ref(w)]) :
              v \in RoundTripValues, w \in RoundTripValues}
    /\ tasks = <<>>
    /\ route = EmptyMap
    /\ last = [ev |-> "init"]

NextRoundTrip ==
    \/ Idle /\ GetWith({<<Config([params |-> Str(<<"?">> \o Pairs(FilterQuery(this),
                                                          DOMAIN FilterQuery(this)))]),
                       Undefined>>})
    \/ GetSettlesWith({NoListingResponse}, {NetworkError})

SpecRoundTrip == InitRoundTrip /\ [][NextRoundTrip]_vars

\* TRUE when the value back is the value sent, a value that reads as a
\* number compared as a number
SameValue(sent, back) ==
    IF back.t = "num"
    THEN /\ sent.t = "str" => \A i \in 1..Len(sent.s) : IsDigit(sent.s[i]) \/ sent.s[i] = "-"
         /\ ParseInt(String(sent)) = [nan |-> FALSE, n |-> back.n]
    ELSE sent.t = "str" /\ back = sent

\* The value of a filter slot that is kept, as buildFilterParameters is to
\* return it: trimmed when a string
Built(v) == IF v.t = "str" THEN Str(Trim(v.s)) ELSE v

\* C32: round trip. The filter parameters, written as strings into a
\* ?-prefixed query string and parsed by normalizeParams, come back with the
\* same keys and the same values, values that read as numbers compared as
\* numbers: a get() given that query string as params sends, besides page
\* and per_page, exactly the entries of the filter store that are kept.
C32_RoundTrip ==
    [][(last'.ev = "get" /\ last'.out = "await")
          => LET kept == {k \in DOMAIN Store(this) :
                             /\ ~IsNullish(Store(this)[k])
                             /\ Built(Store(this)[k]) # Str(<<>>)}
             IN /\ DOMAIN last'.params = {"page", "per_page"} \cup kept
                /\ \A k \in kept : SameValue(Built(Store(this)[k]), last'.params[k])]_vars

\* Both filters came back: one holding & and = unchanged, the other, "07",
\* as the number 7
C32_Witness ==
    /\ last.ev = "get"
    /\ last.out = "await"
    /\ {"search", "tag"} \subseteq DOMAIN last.params
    /\ last.params["search"] = Str(<<"a", "&", "b", "=", "c">>)
    /\ last.params["tag"] = Num(7)
    /\ Store(this)["tag"] = Str(<<"0", "7">>)

====
